---- MODULE Spec2Model ----
(***************************************************************************)
(* NeuraDoc retrieval-and-scoring core: the sentence segmenter, the        *)
(* chunker, the QA engine (qa_engine.py), the answer evaluator             *)
(* (evaluator.py) and the challenge generator (challenge_gen.py).          *)
(*                                                                         *)
(* Text is modelled as TLA+ strings, read character by character with      *)
(* SubSeq/Len, so that segmentation, trimming, tokenising and length       *)
(* thresholds are computed as the Python code computes them.               *)
(*                                                                         *)
(* Every public method is a synchronous call: a specification draws the    *)
(* call (its arguments and the behaviour of the external models during     *)
(* it) in its initial states, and one action per method applies it.        *)
(***************************************************************************)
EXTENDS Integers, Sequences, FiniteSets, TLC

VARIABLES
    embedder,     \* self.embedder: "none" (load failed) or "loaded"
    qa_pipeline,  \* self.qa_pipeline: "none" (load failed) or "loaded"
    pc,           \* "call": the call is pending; "return": it has returned
                  \* (in SpecApp: per session, the position of its handler)
    call,         \* the call: [op |-> method, ...its arguments...]
                  \* (in SpecApp: per session, the request and the handler's locals)
    oracle,       \* what the external collaborators do during the call
                  \* (in SpecApp: the second the clock shows)
    ret,          \* the outcome of the call: Ok(value) or Raised
                  \* (in SpecApp: per session, the requests served and their responses)
    session_data, \* app.py's session_data: session id -> entry
    uploads       \* the files of UPLOAD_FOLDER: path -> content

vars == <<embedder, qa_pipeline, pc, call, oracle, ret, session_data, uploads>>

\* The outcome of a function that may raise: the value it returns, or an
\* exception that leaves it (Python's raise reaching the caller).
Ok(v) == [raised |-> FALSE, value |-> v]
Raised == [raised |-> TRUE, value |-> "exception"]

\* Before the call returns, and where a variable plays no part.
NoValue == [raised |-> FALSE, value |-> "none"]

\* Python dictionaries: {} , d[key] = value, del d[key].
EmptyDict == [key \in {} |-> key]
Put(d, key, value) == [k \in DOMAIN d \cup {key} |-> IF k = key THEN value ELSE d[k]]
Del(d, key) == [k \in DOMAIN d \ {key} |-> d[k]]

(***************************************************************************)
(* Characters and strings                                                  *)
(***************************************************************************)

CharAt(s, i) == SubSeq(s, i, i)

Chars(s) == {CharAt(s, i) : i \in 1..Len(s)}

LowerLetters == "abcdefghijklmnopqrstuvwxyz"
UpperLetters == "ABCDEFGHIJKLMNOPQRSTUVWXYZ"
Digits == "0123456789"

\* \s of Python's re for the characters the model's texts use.
IsSpace(c) == c \in {" ", "\n", "\t", "\r"}

\* [.!?] of the sentence-boundary lookbehind.
IsTerminator(c) == c \in {".", "!", "?"}

\* \w of Python's re: letters, digits and the underscore.
WordChars == Chars(LowerLetters) \cup Chars(UpperLetters) \cup Chars(Digits) \cup {"_"}
IsWordChar(c) == c \in WordChars

\* str.lower() on one character.
LowerOf ==
    [c \in Chars(UpperLetters) |->
        CharAt(LowerLetters, CHOOSE i \in 1..Len(UpperLetters) : CharAt(UpperLetters, i) = c)]
LowerChar(c) == IF c \in DOMAIN LowerOf THEN LowerOf[c] ELSE c

\* str.lower(), by halves (the recursion depth stays logarithmic).
RECURSIVE Lower(_)
Lower(s) ==
    IF Len(s) = 0 THEN ""
    ELSE IF Len(s) = 1 THEN LowerChar(s)
    ELSE LET h == Len(s) \div 2
         IN Lower(SubSeq(s, 1, h)) \o Lower(SubSeq(s, h + 1, Len(s)))

MinOf(S) == CHOOSE x \in S : \A y \in S : x <= y
MaxOf(S) == CHOOSE x \in S : \A y \in S : x >= y

\* str.strip(): from the first to the last character that is not whitespace.
Strip(s) ==
    LET solid == {i \in 1..Len(s) : ~IsSpace(CharAt(s, i))}
    IN IF solid = {} THEN "" ELSE SubSeq(s, MinOf(solid), MaxOf(solid))

\* sep.join(parts)
RECURSIVE Join(_, _)
Join(sep, parts) ==
    IF parts = <<>> THEN ""
    ELSE IF Len(parts) = 1 THEN parts[1]
    ELSE parts[1] \o sep \o Join(sep, Tail(parts))

\* The offsets (1-based) at which sub occurs in s.
Occurrences(sub, s) ==
    {i \in 1..(Len(s) - Len(sub) + 1) : SubSeq(s, i, i + Len(sub) - 1) = sub}

\* Python's `sub in s`.
Contains(s, sub) == sub = "" \/ Occurrences(sub, s) # {}

\* str.find(sub): the 0-based offset of the first occurrence, or -1.
Find(s, sub) ==
    IF sub = "" THEN 0
    ELSE IF Occurrences(sub, s) = {} THEN -1
    ELSE (CHOOSE i \in Occurrences(sub, s) : \A j \in Occurrences(sub, s) : i <= j) - 1

\* seq[lo:hi] of Python (0-based, hi exclusive, clipped to the sequence).
Slice(seq, lo, hi) ==
    LET h == IF hi > Len(seq) THEN Len(seq) ELSE hi
    IN IF lo >= h THEN <<>> ELSE SubSeq(seq, lo + 1, h)

(***************************************************************************)
(* Sentence segmenter                                                      *)
(***************************************************************************)

\* The sentence-length threshold of both _split_into_sentences (len > 10).
MinSentenceLen == 10

\* The last index of the whitespace run that starts at i.
EndOfSpaces(text, i) ==
    MinOf({j \in i..Len(text) : j = Len(text) \/ ~IsSpace(CharAt(text, j + 1))})

\* Where (?<=[.!?])\s+ matches: a whitespace character right after a terminator
\* (the match then takes the whole whitespace run).
SentenceBreaks(text) ==
    {i \in 2..Len(text) : IsTerminator(CharAt(text, i - 1)) /\ IsSpace(CharAt(text, i))}

\* re.split(r'(?<=[.!?])\s+', text): the pieces between the matches, the text
\* before the first and after the last included (possibly empty). `start` is
\* where the current piece begins.
RECURSIVE ReSplitFrom(_, _)
ReSplitFrom(text, start) ==
    LET breaks == {i \in SentenceBreaks(text) : i >= start}
    IN IF breaks = {} THEN <<SubSeq(text, start, Len(text))>>
       ELSE LET i == MinOf(breaks)
            IN <<SubSeq(text, start, i - 1)>> \o ReSplitFrom(text, EndOfSpaces(text, i) + 1)

ReSplitSentences(text) == ReSplitFrom(text, 1)

\* The filter with its comparison off by one (>= for >).
KeepSentenceOffByOne(s) == Strip(s) # "" /\ Len(Strip(s)) >= MinSentenceLen

\* The filter of the comprehension: s.strip() and len(s.strip()) > 10.
KeepSentence(s) == Strip(s) # "" /\ Len(Strip(s)) > MinSentenceLen

\* [s.strip() for s in sentences if s.strip() and len(s.strip()) > 10]
RECURSIVE StripAndFilter(_)
StripAndFilter(seq) ==
    IF seq = <<>> THEN <<>>
    ELSE (IF KeepSentence(seq[1]) THEN <<Strip(seq[1])>> ELSE <<>>) \o StripAndFilter(Tail(seq))

\* QAEngine._split_into_sentences
SplitIntoSentences(text) == StripAndFilter(ReSplitSentences(text))

\* AnswerEvaluator._split_into_sentences (the same two lines)
EvalSplitIntoSentences(text) == StripAndFilter(ReSplitSentences(text))

(***************************************************************************)
(* Chunker                                                                 *)
(***************************************************************************)

\* The default of _split_document_into_chunks' chunk_size parameter.
DefaultChunkSize == 500

\* range(0, n, step) for step > 0, as a sequence of 0-based start indices.
RECURSIVE RangeFrom(_, _, _)
RangeFrom(i, n, step) == IF i >= n THEN <<>> ELSE <<i>> \o RangeFrom(i + step, n, step)

\* The loop body over the start indices: chunk = ' '.join(sentences[i:i + chunk_size]),
\* appended when chunk.strip() is non-empty.
RECURSIVE ChunkLoop(_, _, _)
ChunkLoop(sentences, starts, chunk_size) ==
    IF starts = <<>> THEN <<>>
    ELSE LET i == starts[1]
             chunk == Join(" ", Slice(sentences, i, i + chunk_size))
         IN (IF Strip(chunk) # "" THEN <<chunk>> ELSE <<>>)
            \o ChunkLoop(sentences, Tail(starts), chunk_size)

\* The chunker with window and stride exchanged: it steps by chunk_size and
\* joins chunk_size // 2 sentences.
SplitDocumentIntoChunksSwapped(text, chunk_size) ==
    LET sentences == SplitIntoSentences(text)
    IN Ok(ChunkLoop(sentences, RangeFrom(0, Len(sentences), chunk_size), chunk_size \div 2))

\* QAEngine._split_document_into_chunks. range() raises ValueError on a step of 0
\* (chunk_size // 2 = 0); a negative step gives an empty range.
SplitDocumentIntoChunks(text, chunk_size) ==
    LET sentences == SplitIntoSentences(text)
        step == chunk_size \div 2
    IN IF step = 0 THEN Raised
       ELSE IF step < 0 THEN Ok(<<>>)
       ELSE Ok(ChunkLoop(sentences, RangeFrom(0, Len(sentences), step), chunk_size))

(***************************************************************************)
(* Words and string order                                                  *)
(***************************************************************************)

\* Where a maximal run of word characters starts, and where the run that
\* starts at i ends.
WordStarts(s) ==
    {i \in 1..Len(s) : IsWordChar(CharAt(s, i)) /\ (i = 1 \/ ~IsWordChar(CharAt(s, i - 1)))}

WordEnd(s, i) == MinOf({j \in i..Len(s) : j = Len(s) \/ ~IsWordChar(CharAt(s, j + 1))})

\* set(re.findall(r'\b\w+\b', s))
Words(s) == {SubSeq(s, i, WordEnd(s, i)) : i \in WordStarts(s)}

\* {w for w in set(re.findall(r'\b\w+\b', s.lower())) if len(w) > 3}
LongWords(s) == {w \in Words(Lower(s)) : Len(w) > 3}

\* The characters of the model's texts in code-point order (the quote, the
\* backslash and the backquote are left out: no text of the model holds them).
CodePoints ==
    "\t\n\r !#$%&'()*+,-./0123456789:;<=>?@ABCDEFGHIJKLMNOPQRSTUVWXYZ[]^_abcdefghijklmnopqrstuvwxyz{|}~"

CodeOf ==
    [c \in Chars(CodePoints) |-> CHOOSE i \in 1..Len(CodePoints) : CharAt(CodePoints, i) = c]
Code(c) == CodeOf[c]

\* a < b for Python strings: by the first character that differs, a proper
\* prefix being smaller.
StrLess(a, b) ==
    LET m == IF Len(a) < Len(b) THEN Len(a) ELSE Len(b)
        diff == {i \in 1..m : CharAt(a, i) # CharAt(b, i)}
    IN IF diff = {} THEN Len(a) < Len(b)
       ELSE Code(CharAt(a, MinOf(diff))) < Code(CharAt(b, MinOf(diff)))

(***************************************************************************)
(* QA engine: the lexical path                                             *)
(***************************************************************************)

\* The length at which the lexical answer is cut (answer[:300] + "...").
MaxAnswerLen == 300

\* The number of top sentences the lexical path keeps (sentence_scores[:2]).
TopSentences == 2

\* The (score, sentence) pairs of one chunk, in sentence order. The score
\* overlap / len(question_words) is kept as the fraction [num, den].
RECURSIVE ScoreSentences(_, _)
ScoreSentences(question_words, sentences) ==
    IF sentences = <<>> THEN <<>>
    ELSE LET overlap == Cardinality(question_words \cap LongWords(sentences[1]))
         IN (IF overlap > 0
             THEN <<[score |-> [num |-> overlap, den |-> Cardinality(question_words)],
                     sentence |-> sentences[1]]>>
             ELSE <<>>)
            \o ScoreSentences(question_words, Tail(sentences))

\* The pairs of all chunks, chunk after chunk.
RECURSIVE ScoreChunks(_, _)
ScoreChunks(question_words, chunks) ==
    IF chunks = <<>> THEN <<>>
    ELSE ScoreSentences(question_words, SplitIntoSentences(chunks[1]))
         \o ScoreChunks(question_words, Tail(chunks))

\* a < b for fractions with positive denominators.
FracLess(a, b) == a.num * b.den < b.num * a.den

\* Tuple order on (score, sentence): by score, then by sentence.
PairLess(a, b) ==
    \/ FracLess(a.score, b.score)
    \/ (~FracLess(b.score, a.score) /\ StrLess(a.sentence, b.sentence))

\* Insert x into a descending sequence after the elements not smaller than it.
RECURSIVE InsertDescending(_, _)
InsertDescending(sorted, x) ==
    IF sorted = <<>> THEN <<x>>
    ELSE IF PairLess(sorted[1], x) THEN <<x>> \o sorted
    ELSE <<sorted[1]>> \o InsertDescending(Tail(sorted), x)

\* Variant without the sort: the pairs stay in the order they were scored.
SortSkipped(pairs) == pairs

\* list.sort(reverse=True): descending, elements that compare equal keep
\* their original order.
RECURSIVE SortDescending(_)
SortDescending(pairs) ==
    IF pairs = <<>> THEN <<>>
    ELSE InsertDescending(SortDescending(SubSeq(pairs, 1, Len(pairs) - 1)), pairs[Len(pairs)])

\* [sentence for score, sentence in pairs if score > 0.2]
RECURSIVE AboveThreshold(_)
AboveThreshold(pairs) ==
    IF pairs = <<>> THEN <<>>
    ELSE (IF 10 * pairs[1].score.num > 2 * pairs[1].score.den
          THEN <<pairs[1].sentence>> ELSE <<>>)
         \o AboveThreshold(Tail(pairs))

NoSpecificAnswer == "I couldn't find a specific answer to your question in the document."

\* The body of _generate_fallback_answer for a question string: the pair
\* (answer, top_sentences).
LexicalAnswer(question_text, chunks) ==
    LET question_words == LongWords(question_text)
        sentence_scores == SortDescending(ScoreChunks(question_words, chunks))
        top_sentences == AboveThreshold(Slice(sentence_scores, 0, TopSentences))
        answer == Join(" ", top_sentences)
    IN IF top_sentences # <<>>
       THEN [answer |-> IF Len(answer) > MaxAnswerLen
                        THEN SubSeq(answer, 1, MaxAnswerLen) \o "..."
                        ELSE answer,
             source_sentences |-> top_sentences]
       ELSE [answer |-> NoSpecificAnswer, source_sentences |-> <<>>]

\* A question as the route hands it over: data.get('question') is any JSON
\* value, a string ("str") or not (a non-zero "number" stands for the truthy
\* values that are no strings).
StrQuestion(text) == [kind |-> "str", text |-> text]
NumberQuestion == [kind |-> "number", text |-> ""]

\* Python's `not question`.
NotQuestion(question) == question.kind = "str" /\ question.text = ""

\* QAEngine._generate_fallback_answer. question.lower() raises AttributeError
\* on a value that is no string.
GenerateFallbackAnswer(question, chunks) ==
    IF question.kind # "str" THEN Raised ELSE Ok(LexicalAnswer(question.text, chunks))

(***************************************************************************)
(* QA engine: the ranker, the span-extractor path, the references          *)
(***************************************************************************)

\* Similarities are kept in tenths; 3 is the threshold 0.3 of both rankers.
SimilarityThreshold == 3

\* The number of chunks _find_relevant_chunks keeps ([:3]) and the number it
\* falls back to when none is above the threshold (chunks[:2]).
TopChunks == 3
FallbackChunks == 2

\* The permutations of 1..n as sequences.
Orders(n) == {p \in [1..n -> 1..n] : \A i, j \in 1..n : i # j => p[i] # p[j]}

\* np.argsort(similarities)[::-1]: the indices by descending similarity. The
\* default sort is not stable, so equal similarities come in any order.
DescendingOrders(sims) ==
    {p \in Orders(Len(sims)) : \A i, j \in 1..Len(sims) : i < j => sims[p[i]] >= sims[p[j]]}

\* [chunks[i] for i in top_indices if similarities[i] > 0.3]
RECURSIVE PickAbove(_, _, _)
PickAbove(candidates, sims, top_indices) ==
    IF top_indices = <<>> THEN <<>>
    ELSE (IF sims[top_indices[1]] > SimilarityThreshold
          THEN <<candidates[top_indices[1]]>> ELSE <<>>)
         \o PickAbove(candidates, sims, Tail(top_indices))

\* _find_relevant_chunks whose degraded returns forget the cut (return chunks).
FindRelevantChunksUncut(question, chunks, emb, enc) ==
    IF emb = "none" THEN chunks
    ELSE IF enc.outcome = "raises" THEN chunks
    ELSE LET top_indices == Slice(enc.order, 0, TopChunks)
             relevant_chunks == PickAbove(chunks, enc.sims, top_indices)
         IN IF relevant_chunks # <<>> THEN relevant_chunks
            ELSE Slice(chunks, 0, FallbackChunks)

\* QAEngine._find_relevant_chunks. enc is what the embedder does during the
\* call: enc.outcome = "raises" (encode or cosine_similarity raises), or
\* "ok" with the similarities enc.sims and the argsort order enc.order.
FindRelevantChunks(question, chunks, emb, enc) ==
    IF emb = "none" THEN Slice(chunks, 0, TopChunks)
    ELSE IF enc.outcome = "raises" THEN Slice(chunks, 0, TopChunks)
    ELSE LET top_indices == Slice(enc.order, 0, TopChunks)
             relevant_chunks == PickAbove(chunks, enc.sims, top_indices)
         IN IF relevant_chunks # <<>> THEN relevant_chunks
            ELSE Slice(chunks, 0, FallbackChunks)

\* The first sentence of the chunk that contains the answer, case-insensitively
\* (the inner for loop with its break), as a list of at most one sentence.
RECURSIVE FirstSentenceWith(_, _)
FirstSentenceWith(sentences, answer) ==
    IF sentences = <<>> THEN <<>>
    ELSE IF Contains(Lower(sentences[1]), Lower(answer)) THEN <<sentences[1]>>
    ELSE FirstSentenceWith(Tail(sentences), answer)

\* The for loop of _generate_qa_answer from chunk k on. results[k] is what the
\* span extractor does on chunk k: it raises (caught, the chunk is skipped) or
\* returns an answer with a score (in tenths).
RECURSIVE QALoop(_, _, _, _)
QALoop(chunks, results, k, st) ==
    IF k > Len(chunks) THEN st
    ELSE LET result == results[k]
             wins == /\ result.kind = "result"
                     /\ result.score > st.best_score
                     /\ result.answer # ""
         IN QALoop(chunks, results, k + 1,
                   IF wins
                   THEN [best_answer |-> result.answer,
                         best_score |-> result.score,
                         source_sentences |->
                             st.source_sentences
                             \o FirstSentenceWith(SplitIntoSentences(chunks[k]), result.answer)]
                   ELSE st)

\* _generate_qa_answer keeping the first non-empty answer, whatever its score.
GenerateQAAnswerFirstAnswer(question, chunks, results) ==
    LET answered == {k \in 1..Len(chunks) :
                        results[k].kind = "result" /\ results[k].answer # ""}
    IN IF answered = {} THEN GenerateFallbackAnswer(question, chunks)
       ELSE LET k == MinOf(answered)
            IN Ok([answer |-> results[k].answer,
                   source_sentences |->
                       FirstSentenceWith(SplitIntoSentences(chunks[k]), results[k].answer)])

\* QAEngine._generate_qa_answer
GenerateQAAnswer(question, chunks, results) ==
    LET st == QALoop(chunks, results, 1,
                     [best_answer |-> "", best_score |-> 0, source_sentences |-> <<>>])
    IN IF st.best_answer = "" THEN GenerateFallbackAnswer(question, chunks)
       ELSE Ok([answer |-> st.best_answer, source_sentences |-> st.source_sentences])

\* str.split(sep) from offset start: the pieces between the occurrences of
\* sep, taken left to right without overlap.
RECURSIVE SplitOn(_, _, _)
SplitOn(text, sep, start) ==
    LET occ == {i \in Occurrences(sep, text) : i >= start}
    IN IF occ = {} THEN <<SubSeq(text, start, Len(text))>>
       ELSE <<SubSeq(text, start, MinOf(occ) - 1)>> \o SplitOn(text, sep, MinOf(occ) + Len(sep))

GenericReference == "Based on document content"

\* The citation with the paragraph counted from 0 (len(paragraphs) - 1).
ReferenceZeroBased(sentence, document_text) ==
    LET start_pos == Find(document_text, sentence)
        text_before == SubSeq(document_text, 1, start_pos)
        paragraphs == SplitOn(text_before, "\n\n", 1)
        paragraph_num == Len(paragraphs) - 1
        paragraph_text == paragraphs[Len(paragraphs)]
        sentences_in_paragraph == Len(SplitIntoSentences(paragraph_text))
    IN IF start_pos # -1
       THEN "Based on paragraph " \o ToString(paragraph_num)
            \o ", sentence " \o ToString(sentences_in_paragraph + 1)
       ELSE GenericReference

\* The citation of one sentence (the body of the loop of _generate_references).
Reference(sentence, document_text) ==
    LET start_pos == Find(document_text, sentence)
        text_before == SubSeq(document_text, 1, start_pos)
        paragraphs == SplitOn(text_before, "\n\n", 1)
        paragraph_num == Len(paragraphs)
        paragraph_text == paragraphs[Len(paragraphs)]
        sentences_in_paragraph == Len(SplitIntoSentences(paragraph_text))
    IN IF start_pos # -1
       THEN "Based on paragraph " \o ToString(paragraph_num)
            \o ", sentence " \o ToString(sentences_in_paragraph + 1)
       ELSE GenericReference

\* QAEngine._generate_references
GenerateReferences(source_sentences, document_text) ==
    [k \in 1..Len(source_sentences) |-> Reference(source_sentences[k], document_text)]

(***************************************************************************)
(* QA engine: answer_question                                              *)
(***************************************************************************)

NoContextAnswer == "I cannot answer this question without sufficient context."
EmptyDocumentAnswer == "The document appears to be empty or could not be processed."
NoRelevantAnswer ==
    "I couldn't find relevant information in the document to answer your question."
ErrorAnswer == "I encountered an error while processing your question. Please try again."

\* The triple (answer, references, source_sentences).
Triple(answer, references, source_sentences) ==
    [answer |-> answer, references |-> references, source_sentences |-> source_sentences]

\* The try block of answer_question (lines 52-73): its return value, or Raised
\* when an exception leaves it. orc is what the models do during the call:
\* orc.enc for the embedder, orc.results for the span extractor.
AnswerQuestionBody(question, document_text, chunk_size, emb, qa, orc) ==
    LET chunks == SplitDocumentIntoChunks(document_text, chunk_size)
    IN IF chunks.raised THEN Raised
       ELSE IF chunks.value = <<>> THEN Ok(Triple(EmptyDocumentAnswer, <<>>, <<>>))
       ELSE LET relevant_chunks == FindRelevantChunks(question, chunks.value, emb, orc.enc)
            IN IF relevant_chunks = <<>> THEN Ok(Triple(NoRelevantAnswer, <<>>, <<>>))
               ELSE LET found == IF qa = "loaded"
                                 THEN GenerateQAAnswer(question, relevant_chunks, orc.results)
                                 ELSE GenerateFallbackAnswer(question, relevant_chunks)
                    IN IF found.raised THEN Raised
                       ELSE Ok(Triple(found.value.answer,
                                      GenerateReferences(found.value.source_sentences,
                                                         document_text),
                                      found.value.source_sentences))

\* answer_question without its try/except: an exception of the body reaches
\* the caller.
AnswerQuestionUnguarded(question, document_text, chunk_size, emb, qa, orc) ==
    IF NotQuestion(question) \/ document_text = ""
    THEN Ok(Triple(NoContextAnswer, <<>>, <<>>))
    ELSE AnswerQuestionBody(question, document_text, chunk_size, emb, qa, orc)

\* QAEngine.answer_question
AnswerQuestion(question, document_text, chunk_size, emb, qa, orc) ==
    IF NotQuestion(question) \/ document_text = ""
    THEN Ok(Triple(NoContextAnswer, <<>>, <<>>))
    ELSE LET body == AnswerQuestionBody(question, document_text, chunk_size, emb, qa, orc)
         IN IF body.raised THEN Ok(Triple(ErrorAnswer, <<>>, <<>>)) ELSE body

(***************************************************************************)
(* Inputs of the text specification                                        *)
(***************************************************************************)

\* Texts are concatenations of at most MaxPieces pieces.
MaxPieces == 5

Pieces == {"The mat was red", "Cats.", ".", " ", "\n"}

RECURSIVE TextsOfPieces(_)
TextsOfPieces(n) ==
    IF n = 0 THEN {""} ELSE {t \o p : t \in TextsOfPieces(n - 1), p \in Pieces}

Texts == UNION {TextsOfPieces(n) : n \in 0..MaxPieces}

\* Documents of the chunker: the first n of a family of distinct sentences,
\* none of which occurs inside a join of the others.
MaxSentences == 9

\* Windows of the chunker: 2..MaxWindow beside the default. chunk_size // 2 is
\* the step of the loop, so 2 is the smallest window range() accepts.
MaxWindow == 6

SampleSentence(j) == "Sentence " \o CharAt(UpperLetters, j) \o " is here."

SampleDocument(n) == Join(" ", [j \in 1..n |-> SampleSentence(j)])

Windows == (2..MaxWindow) \cup {DefaultChunkSize}

(***************************************************************************)
(* The text specification: the segmenters and the chunker as calls         *)
(***************************************************************************)

TextCalls ==
    [op : {"qa_split_into_sentences", "ev_split_into_sentences"}, text : Texts]
    \cup [op : {"split_document_into_chunks"}, n : 0..MaxSentences, chunk_size : Windows]

InitText ==
    /\ embedder = "none"
    /\ qa_pipeline = "none"
    /\ pc = "call"
    /\ session_data = EmptyDict
    /\ uploads = EmptyDict
    /\ call \in TextCalls
    /\ oracle = NoValue
    /\ ret = NoValue

QASplitIntoSentencesCall ==
    /\ pc = "call"
    /\ call.op = "qa_split_into_sentences"
    /\ ret' = Ok(SplitIntoSentences(call.text))
    /\ pc' = "return"
    /\ UNCHANGED <<embedder, qa_pipeline, call, oracle, session_data, uploads>>

EvalSplitIntoSentencesCall ==
    /\ pc = "call"
    /\ call.op = "ev_split_into_sentences"
    /\ ret' = Ok(EvalSplitIntoSentences(call.text))
    /\ pc' = "return"
    /\ UNCHANGED <<embedder, qa_pipeline, call, oracle, session_data, uploads>>

SplitDocumentIntoChunksCall ==
    /\ pc = "call"
    /\ call.op = "split_document_into_chunks"
    /\ ret' = SplitDocumentIntoChunks(SampleDocument(call.n), call.chunk_size)
    /\ pc' = "return"
    /\ UNCHANGED <<embedder, qa_pipeline, call, oracle, session_data, uploads>>

NextText ==
    \/ QASplitIntoSentencesCall
    \/ EvalSplitIntoSentencesCall
    \/ SplitDocumentIntoChunksCall

SpecText == InitText /\ [][NextText]_vars

(***************************************************************************)
(* Properties of the segmenter and the chunker                             *)
(***************************************************************************)

SegmenterReturned ==
    pc = "return" /\ call.op \in {"qa_split_into_sentences", "ev_split_into_sentences"}

ChunkerReturned == pc = "return" /\ call.op = "split_document_into_chunks"

\* The sentences occur in the text one after the other, without overlap: each
\* is matched at its first occurrence at or after the end of the previous one.
RECURSIVE OccurInOrder(_, _, _)
OccurInOrder(sentences, text, from) ==
    IF sentences = <<>> THEN TRUE
    ELSE LET occ == {i \in Occurrences(sentences[1], text) : i >= from}
         IN /\ occ # {}
            /\ OccurInOrder(Tail(sentences), text, MinOf(occ) + Len(sentences[1]))

\* C8: every sentence either segmenter returns is longer than 10 characters and
\* a verbatim substring of the input, the sentences occur in the input in the
\* order returned, and an empty or whitespace-only input gives no sentence.
C8_SegmenterSound ==
    SegmenterReturned =>
        /\ \A k \in 1..Len(ret.value) : Len(ret.value[k]) > 10 /\ Contains(call.text, ret.value[k])
        /\ OccurInOrder(ret.value, call.text, 1)
        /\ (\A i \in 1..Len(call.text) : IsSpace(CharAt(call.text, i))) => ret.value = <<>>

\* Two different sentences were returned from a text that also held whitespace.
C8_Witness ==
    /\ SegmenterReturned
    /\ Len(ret.value) = 2
    /\ ret.value[1] # ret.value[2]
    /\ \E i \in 1..Len(call.text) : IsSpace(CharAt(call.text, i))

\* The sentences of the document (by index) that chunk k of the result holds.
SentencesIn(k) == {j \in 1..call.n : Contains(ret.value[k], SampleSentence(j))}

\* C9: every sentence of the document is contained in at least one chunk.
C9_ChunkerCoverage ==
    ChunkerReturned =>
        /\ ~ret.raised
        /\ \A j \in 1..call.n : \E k \in 1..Len(ret.value) : j \in SentencesIn(k)

\* A document longer than the window, cut into at least three chunks.
C9_Witness ==
    /\ ChunkerReturned
    /\ call.n > call.chunk_size
    /\ Len(ret.value) >= 3

\* C10 (as claimed): when the document has more sentences than the window,
\* every two consecutive chunks share at least half a window of sentences.
C10_ConsecutiveChunksShareHalfWindow ==
    (ChunkerReturned /\ call.n > call.chunk_size) =>
        \A k \in 1..(Len(ret.value) - 1) :
            2 * Cardinality(SentencesIn(k) \cap SentencesIn(k + 1)) >= call.chunk_size

(***************************************************************************)
(* The QA specification: answer_question as a call                         *)
(***************************************************************************)

CatDocument == "The cat sat on the mat. The mat was red. Cats like red mats."
CatQuestion == "What color is the mat?"

Documents ==
    {CatDocument,
     "Cats like red mats.\n\nThe red mats are warm. Cats sleep on warm mats.",
     "Too short.",
     "  \n",
     ""}

Questions ==
    {StrQuestion(""), StrQuestion(CatQuestion), StrQuestion("What do cats like?"),
     NumberQuestion}

\* The window answer_question chunks with: the default, and a window of 2
\* sentences under which the documents above span several chunks.
SmallChunkSize == 2
QAChunkSizes == {DefaultChunkSize, SmallChunkSize}

\* The similarities (tenths) the embedder may produce for a chunk: below the
\* threshold, at it (not kept) and above it.
SimValues == {1, SimilarityThreshold, 6}

\* What the span extractor may do on one chunk.
ExtractorOutcomes ==
    {[kind |-> "raises", answer |-> "", score |-> 0]}
    \cup {[kind |-> "result", answer |-> "", score |-> 6],
          [kind |-> "result", answer |-> "red", score |-> 3],
          [kind |-> "result", answer |-> "red", score |-> 6],
          [kind |-> "result", answer |-> "cats", score |-> 6]}

\* What the embedder may do during a call that ranks n candidates.
Encodings(emb, n) ==
    IF emb = "none" THEN {[outcome |-> "unused", sims |-> <<>>, order |-> <<>>]}
    ELSE {[outcome |-> "raises", sims |-> <<>>, order |-> <<>>]}
         \cup UNION {{[outcome |-> "ok", sims |-> sims, order |-> order] :
                          order \in DescendingOrders(sims)} :
                     sims \in [1..n -> SimValues]}

\* What the span extractor may do on each of m ranked chunks.
Extractions(qa, m) == IF qa = "none" THEN {<<>>} ELSE [1..m -> ExtractorOutcomes]

NumChunks(document_text, chunk_size) ==
    Len(SplitDocumentIntoChunks(document_text, chunk_size).value)

InitQA ==
    \E question \in Questions, document_text \in Documents, chunk_size \in QAChunkSizes,
       emb \in {"none", "loaded"}, qa \in {"none", "loaded"} :
        LET n == NumChunks(document_text, chunk_size)
            m == IF n < TopChunks THEN n ELSE TopChunks
        IN \E enc \in Encodings(emb, n), results \in Extractions(qa, m) :
            /\ embedder = emb
            /\ qa_pipeline = qa
            /\ pc = "call"
            /\ session_data = EmptyDict
            /\ uploads = EmptyDict
            /\ call = [op |-> "answer_question", question |-> question,
                       document_text |-> document_text, chunk_size |-> chunk_size]
            /\ oracle = [enc |-> enc, results |-> results]
            /\ ret = NoValue

AnswerQuestionCall ==
    /\ pc = "call"
    /\ call.op = "answer_question"
    /\ ret' = AnswerQuestion(call.question, call.document_text, call.chunk_size,
                             embedder, qa_pipeline, oracle)
    /\ pc' = "return"
    /\ UNCHANGED <<embedder, qa_pipeline, call, oracle, session_data, uploads>>

NextQA == AnswerQuestionCall

Spec == InitQA /\ [][NextQA]_vars

(***************************************************************************)
(* Properties of answer_question                                           *)
(***************************************************************************)

AnswerReturned == pc = "return" /\ call.op = "answer_question"

\* C1: answer_question never raises to its caller; whatever the question, the
\* document and the behaviour of the embedder and of the span extractor, it
\* returns a triple of an answer string and two lists of strings.
C1_AnswerQuestionNeverRaises ==
    AnswerReturned =>
        /\ ~ret.raised
        /\ DOMAIN ret.value = {"answer", "references", "source_sentences"}
        /\ ret.value.answer \in STRING
        /\ ret.value.references \in Seq(STRING)
        /\ ret.value.source_sentences \in Seq(STRING)

\* The call returned although the embedder raised and the span extractor
\* raised on every ranked chunk of a document of several chunks.
C1_Witness ==
    /\ AnswerReturned
    /\ embedder = "loaded" /\ oracle.enc.outcome = "raises"
    /\ qa_pipeline = "loaded"
    /\ Len(oracle.results) >= 2
    /\ \A k \in 1..Len(oracle.results) : oracle.results[k].kind = "raises"
    /\ call.question.kind = "str" /\ call.question.text # ""

LexicalCatCall ==
    /\ AnswerReturned
    /\ qa_pipeline = "none"
    /\ call.document_text = CatDocument
    /\ call.question = StrQuestion(CatQuestion)

\* C7: on the lexical path, for the cat document and the question
\* "What color is the mat?", the top evidence sentence is "The mat was red."
\* and the answer contains "red".
C7_SelectsTheMatWasRed ==
    LexicalCatCall =>
        /\ ret.value.source_sentences # <<>>
        /\ ret.value.source_sentences[1] = "The mat was red."
        /\ Contains(ret.value.answer, "red")

\* The lexical cat call with the default window and no embedder.
C7_Witness == LexicalCatCall /\ call.chunk_size = DefaultChunkSize /\ embedder = "none"

(***************************************************************************)
(* Scores: Python floats kept exact as fractions                           *)
(***************************************************************************)

Abs(n) == IF n < 0 THEN -n ELSE n

RECURSIVE GCD(_, _)
GCD(a, b) == IF b = 0 THEN a ELSE GCD(b, a % b)

\* The number n/d (d > 0) in lowest terms, so that equal numbers are equal
\* records. Arithmetic on these is exact: the rounding error of the float
\* operations is not modelled, except in round() below.
Rat(n, d) == LET g == GCD(Abs(n), d) IN [num |-> n \div g, den |-> d \div g]

RatAdd(a, b) == Rat(a.num * b.den + b.num * a.den, a.den * b.den)
RatMul(a, b) == Rat(a.num * b.num, a.den * b.den)
RatLeq(a, b) == a.num * b.den <= b.num * a.den
RatMin(a, b) == IF RatLeq(b, a) THEN b ELSE a
RatMax(a, b) == IF RatLeq(a, b) THEN b ELSE a

RECURSIVE Pow10(_)
Pow10(digits) == IF digits = 0 THEN 1 ELSE 10 * Pow10(digits - 1)

\* round(x, digits): the multiple of 10^-digits nearest to x. A computed float
\* whose exact value lies halfway between two multiples is a hair below or
\* above the tie, so round() may go either way: both neighbours are results.
RoundResults(x, digits) ==
    LET scale == Pow10(digits)
        q == (x.num * scale) \div x.den
        r == (x.num * scale) % x.den
    IN IF 2 * r < x.den THEN {Rat(q, scale)}
       ELSE IF 2 * r > x.den THEN {Rat(q + 1, scale)}
       ELSE {Rat(q, scale), Rat(q + 1, scale)}

(***************************************************************************)
(* Answer evaluator (evaluator.py)                                         *)
(***************************************************************************)

\* The entries of nltk's English stop-word list that are longer than 3
\* characters and made of word characters only (the others never pass the
\* len(w) > 3 filter the list is combined with).
StopWords ==
    {"myself", "ours", "ourselves", "your", "yours", "yourself", "yourselves",
     "himself", "hers", "herself", "itself", "they", "them", "their", "theirs",
     "themselves", "what", "which", "whom", "this", "that", "these", "those",
     "were", "been", "being", "have", "having", "does", "doing", "because",
     "until", "while", "with", "about", "against", "between", "into", "through",
     "during", "before", "after", "above", "below", "from", "down", "over",
     "under", "again", "further", "then", "once", "here", "there", "when",
     "where", "both", "each", "more", "most", "other", "some", "such", "only",
     "same", "than", "very", "will", "just", "should", "aren", "couldn", "didn",
     "doesn", "hadn", "hasn", "haven", "mightn", "mustn", "needn", "shan",
     "shouldn", "wasn", "weren", "wouldn"}

\* {w for w in set(re.findall(r'\b\w+\b', s.lower())) if w not in stop_words and len(w) > 3}
ContentWords(s) == {w \in Words(Lower(s)) : w \notin StopWords /\ Len(w) > 3}

\* The number of sentences _find_relevant_sentences keeps ([:5], also its cut
\* without an embedder) and the number it falls back to (sentences[:3]).
TopRelevantSentences == 5
FallbackSentences == 3

\* AnswerEvaluator._find_relevant_sentences. rank is what the embedder does
\* during the call, as enc in _find_relevant_chunks.
FindRelevantSentences(question, document_text, emb, rank) ==
    LET sentences == EvalSplitIntoSentences(document_text)
    IN IF emb = "none" THEN Slice(sentences, 0, TopRelevantSentences)
       ELSE IF rank.outcome = "raises" THEN Slice(sentences, 0, FallbackSentences)
       ELSE LET top_indices == Slice(rank.order, 0, TopRelevantSentences)
                relevant_sentences == PickAbove(sentences, rank.sims, top_indices)
            IN IF relevant_sentences # <<>> THEN relevant_sentences
               ELSE Slice(sentences, 0, FallbackSentences)

RECURSIVE SumSeq(_)
SumSeq(seq) == IF seq = <<>> THEN 0 ELSE seq[1] + SumSeq(Tail(seq))

\* The neutral value of a signal that cannot be computed.
Half == Rat(1, 2)

\* AnswerEvaluator._calculate_semantic_similarity. sem is what the embedder does
\* during the call: it raises, or gives one cosine similarity (in tenths,
\* possibly negative) per relevant sentence; the result is their mean.
CalculateSemanticSimilarity(relevant_sentences, emb, sem) ==
    IF emb = "none" \/ relevant_sentences = <<>> THEN Half
    ELSE IF sem.outcome = "raises" THEN Half
    ELSE Rat(SumSeq(sem.sims), 10 * Len(sem.sims))

\* The words of all concepts: concept_words.update(re.findall(..., concept.lower()))
ConceptWords(expected_concepts) ==
    UNION {Words(Lower(expected_concepts[k])) : k \in 1..Len(expected_concepts)}

\* AnswerEvaluator._calculate_keyword_overlap for an answer string.
CalculateKeywordOverlap(answer_text, expected_concepts) ==
    IF expected_concepts = <<>> THEN Half
    ELSE IF ConceptWords(expected_concepts) = {} THEN Half
    ELSE RatMin(Rat(Cardinality(ContentWords(answer_text) \cap ConceptWords(expected_concepts)),
                    Cardinality(ConceptWords(expected_concepts))),
                Rat(1, 1))

\* The content words of all relevant sentences.
SentenceWords(relevant_sentences) ==
    UNION {ContentWords(relevant_sentences[k]) : k \in 1..Len(relevant_sentences)}

\* AnswerEvaluator._calculate_content_relevance for an answer string.
CalculateContentRelevance(answer_text, relevant_sentences) ==
    IF relevant_sentences = <<>> THEN Half
    ELSE IF ContentWords(answer_text) = {} THEN Rat(0, 1)
    ELSE IF SentenceWords(relevant_sentences) = {} THEN Half
    ELSE RatMin(Rat(Cardinality(ContentWords(answer_text) \cap SentenceWords(relevant_sentences)),
                    Cardinality(ContentWords(answer_text))),
                Rat(1, 1))

\* The weighted sum with weights that do not add up to 1 (0.4, 0.4, 0.3).
CombineScoresHeavy(semantic_score, keyword_score, content_score) ==
    LET overall_score ==
            RatAdd(RatAdd(RatMul(semantic_score, Rat(4, 10)),
                          RatMul(keyword_score, Rat(4, 10))),
                   RatMul(content_score, Rat(3, 10)))
    IN RatMin(RatMax(overall_score, Rat(0, 1)), Rat(1, 1))

\* AnswerEvaluator._combine_scores: weights 0.4, 0.3, 0.3, clamped to [0, 1].
CombineScores(semantic_score, keyword_score, content_score) ==
    LET overall_score ==
            RatAdd(RatAdd(RatMul(semantic_score, Rat(4, 10)),
                          RatMul(keyword_score, Rat(3, 10))),
                   RatMul(content_score, Rat(3, 10)))
    IN RatMin(RatMax(overall_score, Rat(0, 1)), Rat(1, 1))

\* AnswerEvaluator._generate_feedback (only overall_score decides).
GenerateFeedback(overall_score) ==
    IF RatLeq(Rat(8, 10), overall_score)
    THEN "Excellent answer! Your response demonstrates strong understanding of the document content."
    ELSE IF RatLeq(Rat(6, 10), overall_score)
    THEN "Good answer! You've captured the main points, but could provide more specific details."
    ELSE IF RatLeq(Rat(4, 10), overall_score)
    THEN "Fair answer. Consider including more relevant concepts and specific information from the document."
    ELSE IF RatLeq(Rat(2, 10), overall_score)
    THEN "Your answer needs improvement. Try to focus more on the specific concepts mentioned in the question."
    ELSE "Your answer doesn't seem to address the question effectively. Please review the document content."

\* len(s.split()): the number of maximal runs of non-whitespace.
SplitCount(s) ==
    Cardinality({i \in 1..Len(s) :
                    ~IsSpace(CharAt(s, i)) /\ (i = 1 \/ IsSpace(CharAt(s, i - 1)))})

\* [concept for concept in expected_concepts if concept.lower() in user_answer.lower()]
RECURSIVE CoveredConcepts(_, _)
CoveredConcepts(expected_concepts, answer_text) ==
    IF expected_concepts = <<>> THEN <<>>
    ELSE (IF Contains(Lower(answer_text), Lower(expected_concepts[1]))
          THEN <<expected_concepts[1]>> ELSE <<>>)
         \o CoveredConcepts(Tail(expected_concepts), answer_text)

\* AnswerEvaluator._generate_analysis for an answer string.
GenerateAnalysis(expected_concepts, answer_text, overall_score) ==
    LET answer_length == SplitCount(answer_text)
        length_part ==
            IF answer_length < 10
            THEN "Your answer is quite brief. Consider providing more detailed explanations."
            ELSE IF answer_length > 100
            THEN "Your answer is comprehensive, which is good for demonstrating understanding."
            ELSE "Your answer has an appropriate length for this type of question."
        covered_concepts == CoveredConcepts(expected_concepts, answer_text)
        concept_part ==
            IF expected_concepts = <<>> THEN <<>>
            ELSE IF covered_concepts # <<>>
            THEN <<"You covered these key concepts: " \o Join(", ", covered_concepts) \o ".">>
            ELSE <<"Consider including more of the key concepts mentioned in the question.">>
        overall_part ==
            IF RatLeq(Rat(7, 10), overall_score)
            THEN "Overall, this is a strong response that demonstrates good comprehension."
            ELSE IF RatLeq(Rat(5, 10), overall_score)
            THEN "This response shows some understanding but could be more specific."
            ELSE "This response needs significant improvement to demonstrate understanding."
    IN Join(" ", <<length_part>> \o concept_part \o <<overall_part>>)

\* The grade ladder with two thresholds exchanged (0.8 gives "B+", 0.7 "A").
GetGradeSwapped(score) ==
    IF RatLeq(Rat(9, 10), score) THEN "A+"
    ELSE IF RatLeq(Rat(8, 10), score) THEN "B+"
    ELSE IF RatLeq(Rat(7, 10), score) THEN "A"
    ELSE IF RatLeq(Rat(6, 10), score) THEN "B"
    ELSE IF RatLeq(Rat(5, 10), score) THEN "C+"
    ELSE IF RatLeq(Rat(4, 10), score) THEN "C"
    ELSE IF RatLeq(Rat(3, 10), score) THEN "D"
    ELSE "F"

\* AnswerEvaluator._get_grade
GetGrade(score) ==
    IF RatLeq(Rat(9, 10), score) THEN "A+"
    ELSE IF RatLeq(Rat(8, 10), score) THEN "A"
    ELSE IF RatLeq(Rat(7, 10), score) THEN "B+"
    ELSE IF RatLeq(Rat(6, 10), score) THEN "B"
    ELSE IF RatLeq(Rat(5, 10), score) THEN "C+"
    ELSE IF RatLeq(Rat(4, 10), score) THEN "C"
    ELSE IF RatLeq(Rat(3, 10), score) THEN "D"
    ELSE "F"

\* AnswerEvaluator._create_evaluation: the dictionaries it may return (one,
\* unless a rounding falls on a tie). The grade is taken from the raw score.
CreateEvaluation(score, feedback, analysis) ==
    {[score |-> rounded, percentage |-> percentage, feedback |-> feedback,
      analysis |-> analysis, grade |-> GetGrade(score)] :
        rounded \in RoundResults(score, 2),
        percentage \in RoundResults(RatMul(score, Rat(100, 1)), 1)}

NoAnswerFeedback == "No answer provided"
NoAnswerAnalysis == "Please provide a detailed answer."
LimitedContextFeedback == "Limited context available"
LimitedContextAnalysis ==
    "I couldn't find specific information to evaluate your answer against."
EvaluationErrorFeedback == "Evaluation error"
EvaluationErrorAnalysis ==
    "I encountered an error while evaluating your answer. Please try again."

\* The question argument as the route hands it over (any JSON value): a
\* falsy value ("none": None or {}), a dictionary ("dict") that has the key
\* 'question' or not, with its concepts ([] when the key is missing), or a
\* truthy value that is no dictionary ("other").
DictQuestion(text, concepts) ==
    [kind |-> "dict", has_question |-> TRUE, question |-> text, concepts |-> concepts]
DictWithoutQuestion(concepts) ==
    [kind |-> "dict", has_question |-> FALSE, question |-> "", concepts |-> concepts]
NoneQuestion == [kind |-> "none", has_question |-> FALSE, question |-> "", concepts |-> <<>>]
OtherQuestion == [kind |-> "other", has_question |-> FALSE, question |-> "", concepts |-> <<>>]

\* The user answer: a string, or a truthy value that is no string ("number").
StrAnswer(text) == [kind |-> "str", text |-> text]
NumberAnswer == [kind |-> "number", text |-> ""]

\* The guard with the answer left out (if not question:).
NothingToEvaluateQuestionOnly(question, user_answer) == question.kind = "none"

\* if not user_answer or not question
NothingToEvaluate(question, user_answer) ==
    \/ (user_answer.kind = "str" /\ user_answer.text = "")
    \/ question.kind = "none"

\* The try block of evaluate_answer (lines 56-96): the evaluations it may
\* return, or Raised when an exception leaves it. orc.rank and orc.sem are
\* what the embedder does in the two helpers that use it.
EvaluateAnswerBody(question, user_answer, document_text, emb, orc) ==
    IF question.kind # "dict" \/ ~question.has_question THEN {Raised}
    ELSE LET relevant_sentences == FindRelevantSentences(question.question, document_text, emb, orc.rank)
         IN IF relevant_sentences = <<>>
            THEN {Ok(e) : e \in CreateEvaluation(Half, LimitedContextFeedback,
                                                 LimitedContextAnalysis)}
            ELSE IF user_answer.kind # "str" THEN {Raised}
            ELSE LET semantic_score ==
                         CalculateSemanticSimilarity(relevant_sentences, emb, orc.sem)
                     keyword_score ==
                         CalculateKeywordOverlap(user_answer.text, question.concepts)
                     content_score ==
                         CalculateContentRelevance(user_answer.text, relevant_sentences)
                     overall_score ==
                         CombineScores(semantic_score, keyword_score, content_score)
                 IN {Ok(e) : e \in CreateEvaluation(
                                       overall_score,
                                       GenerateFeedback(overall_score),
                                       GenerateAnalysis(question.concepts, user_answer.text,
                                                        overall_score))}

\* evaluate_answer without its try/except.
EvaluateAnswerUnguarded(question, user_answer, document_text, emb, orc) ==
    IF NothingToEvaluate(question, user_answer)
    THEN {Ok(e) : e \in CreateEvaluation(Rat(0, 1), NoAnswerFeedback, NoAnswerAnalysis)}
    ELSE EvaluateAnswerBody(question, user_answer, document_text, emb, orc)

\* AnswerEvaluator.evaluate_answer: the outcomes the call may have.
EvaluateAnswer(question, user_answer, document_text, emb, orc) ==
    IF NothingToEvaluate(question, user_answer)
    THEN {Ok(e) : e \in CreateEvaluation(Rat(0, 1), NoAnswerFeedback, NoAnswerAnalysis)}
    ELSE LET body == EvaluateAnswerBody(question, user_answer, document_text, emb, orc)
         IN IF \E outcome \in body : outcome.raised
            THEN {Ok(e) : e \in CreateEvaluation(Half, EvaluationErrorFeedback,
                                                 EvaluationErrorAnalysis)}
            ELSE body

(***************************************************************************)
(* The evaluator specification: evaluate_answer, _combine_scores and       *)
(* _get_grade as calls                                                     *)
(***************************************************************************)

EvalDocuments == {"", "Cats like red mats. The red mats are warm.", CatDocument}

EvalQuestions ==
    {NoneQuestion, OtherQuestion, DictWithoutQuestion(<<>>),
     DictQuestion("What do cats like?", <<"red mats", "Cats">>),
     DictQuestion("What do cats like?", <<>>)}

UserAnswers ==
    {StrAnswer(""), StrAnswer("  "), StrAnswer("Red mats."),
     StrAnswer("Cats like warm mats."), NumberAnswer}

\* The cosine similarities (tenths) the embedder may give between the answer
\* and a relevant sentence.
SemValues == {-2, 5, 10}

\* What the embedder may do in _calculate_semantic_similarity on k sentences.
SemEncodings(emb, k) ==
    IF emb = "none" \/ k = 0 THEN {[outcome |-> "unused", sims |-> <<>>]}
    ELSE {[outcome |-> "raises", sims |-> <<>>]}
         \cup {[outcome |-> "ok", sims |-> sims] : sims \in [1..k -> SemValues]}

\* Signals are drawn in steps of 1/SignalGrid from a range that reaches beyond
\* [0, 1] on both sides; scores to grade in steps of 1/GradeGrid.
SignalGrid == 5
GradeGrid == 50

Signals == {Rat(n, SignalGrid) : n \in (-2)..(SignalGrid + 2)}
GradeScores == {Rat(n, GradeGrid) : n \in (-5)..(GradeGrid + 5)}

InitEval ==
    /\ qa_pipeline = "none"
    /\ pc = "call"
    /\ session_data = EmptyDict
    /\ uploads = EmptyDict
    /\ ret = NoValue
    /\ \/ \E question \in EvalQuestions, user_answer \in UserAnswers,
             document_text \in EvalDocuments, emb \in {"none", "loaded"} :
              \E rank \in Encodings(emb, Len(EvalSplitIntoSentences(document_text))) :
                  \E sem \in SemEncodings(emb, Len(FindRelevantSentences(
                                                    question.question, document_text, emb, rank))) :
                      /\ embedder = emb
                      /\ call = [op |-> "evaluate_answer", question |-> question,
                                 user_answer |-> user_answer, document_text |-> document_text]
                      /\ oracle = [rank |-> rank, sem |-> sem]
       \/ \E semantic_score \in Signals, keyword_score \in Signals, content_score \in Signals :
              /\ embedder = "none"
              /\ call = [op |-> "combine_scores", semantic_score |-> semantic_score,
                         keyword_score |-> keyword_score, content_score |-> content_score]
              /\ oracle = NoValue
       \/ \E score \in GradeScores :
              /\ embedder = "none"
              /\ call = [op |-> "get_grade", score |-> score]
              /\ oracle = NoValue

EvaluateAnswerCall ==
    /\ pc = "call"
    /\ call.op = "evaluate_answer"
    /\ ret' \in EvaluateAnswer(call.question, call.user_answer, call.document_text,
                               embedder, oracle)
    /\ pc' = "return"
    /\ UNCHANGED <<embedder, qa_pipeline, call, oracle, session_data, uploads>>

CombineScoresCall ==
    /\ pc = "call"
    /\ call.op = "combine_scores"
    /\ ret' = Ok(CombineScores(call.semantic_score, call.keyword_score, call.content_score))
    /\ pc' = "return"
    /\ UNCHANGED <<embedder, qa_pipeline, call, oracle, session_data, uploads>>

GetGradeCall ==
    /\ pc = "call"
    /\ call.op = "get_grade"
    /\ ret' = Ok(GetGrade(call.score))
    /\ pc' = "return"
    /\ UNCHANGED <<embedder, qa_pipeline, call, oracle, session_data, uploads>>

NextEval ==
    \/ EvaluateAnswerCall
    \/ CombineScoresCall
    \/ GetGradeCall

SpecEval == InitEval /\ [][NextEval]_vars

(***************************************************************************)
(* Properties of the evaluator                                             *)
(***************************************************************************)

EvaluationReturned == pc = "return" /\ call.op = "evaluate_answer"

\* An exception reaches the handler of evaluate_answer: the question is a
\* truthy value without a 'question' entry, or the answer is no string and
\* sentences were found to score it against.
FaultDuringScoring ==
    /\ ~NothingToEvaluate(call.question, call.user_answer)
    /\ \/ call.question.kind # "dict"
       \/ ~call.question.has_question
       \/ /\ call.user_answer.kind # "str"
          /\ EvalSplitIntoSentences(call.document_text) # <<>>

\* C2: evaluate_answer never propagates an exception; whatever the question,
\* the answer, the document and the behaviour of the embedder, it returns an
\* evaluation with the keys score, percentage, grade, feedback and analysis,
\* and a fault during scoring gives score 0.5 with feedback "Evaluation error".
C2_EvaluateAnswerNeverRaises ==
    EvaluationReturned =>
        /\ ~ret.raised
        /\ DOMAIN ret.value = {"score", "percentage", "grade", "feedback", "analysis"}
        /\ FaultDuringScoring =>
               /\ ret.value.score = Rat(5, 10)
               /\ ret.value.feedback = "Evaluation error"

\* A fault during scoring happened while the embedder was loaded and raised
\* in the ranking.
C2_Witness ==
    /\ EvaluationReturned
    /\ FaultDuringScoring
    /\ call.question.kind = "dict"
    /\ embedder = "loaded" /\ oracle.rank.outcome = "raises"
    /\ ret.value.feedback = "Evaluation error"

CombineReturned == pc = "return" /\ call.op = "combine_scores"

InUnitRange(x) == RatLeq(Rat(0, 1), x) /\ RatLeq(x, Rat(1, 1))

\* C4: for signals in [0, 1], _combine_scores returns a value in [0, 1] equal
\* to 0.4 * semantic + 0.3 * keyword + 0.3 * content (the clamp changes nothing).
C4_CombineIsWeightedSum ==
    (/\ CombineReturned
     /\ InUnitRange(call.semantic_score)
     /\ InUnitRange(call.keyword_score)
     /\ InUnitRange(call.content_score)) =>
        LET s == call.semantic_score
            k == call.keyword_score
            c == call.content_score
            r == ret.value
        IN /\ InUnitRange(r)
           /\ 10 * r.num * s.den * k.den * c.den
                  = r.den * (4 * s.num * k.den * c.den
                             + 3 * k.num * s.den * c.den
                             + 3 * c.num * s.den * k.den)

\* All three signals at 1: the weighted sum reaches the upper clamp exactly.
C4_Witness ==
    /\ CombineReturned
    /\ call.semantic_score = Rat(1, 1)
    /\ call.keyword_score = Rat(1, 1)
    /\ call.content_score = Rat(1, 1)
    /\ ret.value = Rat(1, 1)

GradeReturned == pc = "return" /\ call.op = "get_grade"

\* The position of a grade in the order F < D < C < C+ < B < B+ < A < A+.
GradeOrder == <<"F", "D", "C", "C+", "B", "B+", "A", "A+">>
GradeRank(grade) == CHOOSE i \in 1..Len(GradeOrder) : GradeOrder[i] = grade

\* C5: for scores s1 < s2, the grade of s1 is never strictly higher than the
\* grade of s2 (s2 is the score of the call, s1 any smaller score).
C5_GradeMonotone ==
    GradeReturned =>
        \A s1 \in GradeScores :
            (RatLeq(s1, call.score) /\ s1 # call.score) =>
                GradeRank(GetGrade(s1)) <= GradeRank(ret.value)

\* A score graded "A", with smaller scores that are graded "B+".
C5_Witness ==
    /\ GradeReturned
    /\ ret.value = "A"
    /\ \E s1 \in GradeScores : RatLeq(s1, call.score) /\ GetGrade(s1) = "B+"

EmptyAnswerCall == EvaluationReturned /\ call.user_answer = StrAnswer("")

\* C6 (as claimed): an empty user answer gives score 0 and the feedback
\* "No answer provided." for every question and document.
C6_EmptyAnswerFeedbackWithFullStop ==
    EmptyAnswerCall =>
        /\ ret.value.score = Rat(0, 1)
        /\ ret.value.feedback = "No answer provided."

\* C6 (amended): an empty user answer gives score 0 and the feedback
\* "No answer provided" (no full stop) for every question and document; the
\* result is the fixed one of the early return, whatever the embedder would do.
C6_EmptyAnswerScoresZero ==
    EmptyAnswerCall =>
        ret = Ok([score |-> Rat(0, 1), percentage |-> Rat(0, 1), grade |-> "F",
                  feedback |-> "No answer provided",
                  analysis |-> "Please provide a detailed answer."])

\* An empty answer to a well-formed question on a document with sentences,
\* the embedder loaded.
C6_Witness ==
    /\ EmptyAnswerCall
    /\ call.question.kind = "dict" /\ call.question.has_question
    /\ call.document_text = CatDocument
    /\ embedder = "loaded"

(***************************************************************************)
(* Challenge generator (challenge_gen.py)                                  *)
(***************************************************************************)

\* A question dictionary.
Question(question, concepts, type, difficulty) ==
    [question |-> question, concepts |-> concepts, type |-> type, difficulty |-> difficulty]

\* None, where a question dictionary is expected.
NoQuestion == Question("", <<>>, "none", "none")

\* The shortest stripped document questions are generated from.
MinDocumentLen == 100

\* The number of questions generate_questions asks for and returns.
NumQuestions == 3

\* The number of most frequent words considered, and the frequency a key
\* concept must exceed.
MaxKeyConcepts == 20
MinFrequency == 2

\* The length a key sentence is cut to in a fallback question.
KeySentenceLen == 100

\* The number of leading sentences a fallback question chooses from.
KeySentenceChoices == 10

\* A template is the sequence of its literal parts and its fields.
Lit(text) == [field |-> FALSE, text |-> text]
Field(name) == [field |-> TRUE, text |-> name]

\* self.question_templates
QuestionTemplates ==
    << <<Lit("What is the main argument presented about "), Field("topic"), Lit("?")>>,
       <<Lit("How does the document explain the relationship between "), Field("concept1"),
         Lit(" and "), Field("concept2"), Lit("?")>>,
       <<Lit("What evidence does the author provide to support the claim about "),
         Field("topic"), Lit("?")>>,
       <<Lit("According to the document, what are the key factors that influence "),
         Field("concept"), Lit("?")>>,
       <<Lit("What conclusion can be drawn about "), Field("topic"),
         Lit(" based on the information provided?")>>,
       <<Lit("How does the document define or describe "), Field("concept"), Lit("?")>>,
       <<Lit("What are the implications of "), Field("concept"),
         Lit(" as discussed in the document?")>>,
       <<Lit("Based on the document, what is the significance of "), Field("topic"), Lit("?")>>,
       <<Lit("What are the main differences between "), Field("concept1"), Lit(" and "),
         Field("concept2"), Lit(" as described?")>>,
       <<Lit("How does the author justify their position on "), Field("topic"), Lit("?")>> >>

\* template.format(**values): the parts in order, each field replaced by its value.
RECURSIVE Format(_, _)
Format(template, values) ==
    IF template = <<>> THEN ""
    ELSE (IF template[1].field THEN values[template[1].text] ELSE template[1].text)
         \o Format(Tail(template), values)

\* The word that starts at i.
WordAt(s, i) == SubSeq(s, i, WordEnd(s, i))

\* The tokens of word_tokenize(re.sub(r'[^\w\s]', ' ', text.lower())) that
\* pass the filter (no stop word, len > 3), by where they start in the
\* lowered text. Once every other character is a space, a token is a maximal
\* run of word characters.
KeptStarts(lowered) ==
    {i \in WordStarts(lowered) :
        WordAt(lowered, i) \notin StopWords /\ Len(WordAt(lowered, i)) > 3}

\* word_freq as a table: for every kept word, its count (freq) and where it
\* was first seen (first), which is its place in the dictionary's order.
WordFreq(lowered) ==
    LET starts == KeptStarts(lowered)
        word_at == [i \in starts |-> WordAt(lowered, i)]
    IN [w \in {word_at[i] : i \in starts} |->
           [freq |-> Cardinality({i \in starts : word_at[i] = w}),
            first |-> MinOf({i \in starts : word_at[i] = w})]]

\* sorted(word_freq.items(), key=lambda x: x[1], reverse=True): by descending
\* frequency, words of equal frequency in the order of their first occurrence.
RECURSIVE SortedWords(_, _)
SortedWords(word_freq, remaining) ==
    IF remaining = {} THEN <<>>
    ELSE LET first == CHOOSE w \in remaining :
                          \A v \in remaining :
                              \/ word_freq[w].freq > word_freq[v].freq
                              \/ /\ word_freq[w].freq = word_freq[v].freq
                                 /\ word_freq[w].first <= word_freq[v].first
         IN <<first>> \o SortedWords(word_freq, remaining \ {first})

\* [word for word, freq in sorted_words if freq >= 2]: the comparison off by one.
KeepFrequentFromMin(word_freq, sorted_words) ==
    LET kept == {k \in 1..Len(sorted_words) : word_freq[sorted_words[k]].freq >= MinFrequency}
    IN [k \in 1..Cardinality(kept) |->
           sorted_words[CHOOSE i \in kept : Cardinality({j \in kept : j <= i}) = k]]

\* [word for word, freq in sorted_words if freq > 2]
KeepFrequent(word_freq, sorted_words) ==
    LET kept == {k \in 1..Len(sorted_words) : word_freq[sorted_words[k]].freq > MinFrequency}
    IN [k \in 1..Cardinality(kept) |->
           sorted_words[CHOOSE i \in kept : Cardinality({j \in kept : j <= i}) = k]]

\* ChallengeGenerator._extract_key_concepts. word_tokenize needs the punkt data
\* of nltk: tokenizer = "raises" when it is missing (LookupError).
ExtractKeyConcepts(text, tokenizer) ==
    IF tokenizer = "raises" THEN Raised
    ELSE LET word_freq == WordFreq(Lower(text))
             sorted_words == SortedWords(word_freq, DOMAIN word_freq)
         IN Ok(KeepFrequent(word_freq, Slice(sorted_words, 0, MaxKeyConcepts)))

\* The filter that forgets which concepts were used.
UnusedForgetful(key_concepts, used_concepts) == key_concepts

\* [c for c in key_concepts if c not in used_concepts]
RECURSIVE Unused(_, _)
Unused(key_concepts, used_concepts) ==
    IF key_concepts = <<>> THEN <<>>
    ELSE (IF key_concepts[1] \notin used_concepts THEN <<key_concepts[1]>> ELSE <<>>)
         \o Unused(Tail(key_concepts), used_concepts)

\* random.sample(population, k) for k <= 2: every sequence of k elements taken
\* at different positions.
Samples(population, k) ==
    IF k = 0 THEN {<<>>}
    ELSE IF k = 1 THEN {<<population[i]>> : i \in 1..Len(population)}
    ELSE {<<population[pair[1]], population[pair[2]]>> :
              pair \in {p \in (1..Len(population)) \X (1..Len(population)) : p[1] # p[2]}}

\* _generate_single_question filling {concept2} with the first concept too.
GenerateSingleQuestionOneConcept(key_concepts, used_concepts) ==
    IF Len(key_concepts) < 2 THEN {NoQuestion}
    ELSE LET unused == Unused(key_concepts, used_concepts)
             available_concepts == IF Len(unused) < 2 THEN Slice(key_concepts, 0, 2) ELSE unused
             k == IF Len(available_concepts) < 2 THEN Len(available_concepts) ELSE 2
         IN {Question(Format(QuestionTemplates[t],
                             [topic |-> selected_concepts[1],
                              concept1 |-> selected_concepts[1],
                              concept2 |-> selected_concepts[1],
                              concept |-> selected_concepts[1]]),
                      selected_concepts, "logic", "medium") :
                selected_concepts \in Samples(available_concepts, k),
                t \in 1..Len(QuestionTemplates)}

\* ChallengeGenerator._generate_single_question: the dictionaries it may return
\* (the concepts and the template are drawn at random), or None.
GenerateSingleQuestion(key_concepts, used_concepts) ==
    IF Len(key_concepts) < 2 THEN {NoQuestion}
    ELSE LET unused == Unused(key_concepts, used_concepts)
             available_concepts == IF Len(unused) < 2 THEN Slice(key_concepts, 0, 2) ELSE unused
             k == IF Len(available_concepts) < 2 THEN Len(available_concepts) ELSE 2
         IN {Question(Format(QuestionTemplates[t],
                             [topic |-> selected_concepts[1],
                              concept1 |-> selected_concepts[1],
                              concept2 |-> selected_concepts[IF k >= 2 THEN 2 ELSE 1],
                              concept |-> selected_concepts[1]]),
                      selected_concepts, "logic", "medium") :
                selected_concepts \in Samples(available_concepts, k),
                t \in 1..Len(QuestionTemplates)}

\* ChallengeGenerator._generate_fallback_questions
GenerateFallbackQuestions ==
    <<Question("What is the main topic discussed in this document?",
               <<"main topic", "document content">>, "comprehension", "easy"),
      Question("What are the key points or arguments presented in the document?",
               <<"key points", "arguments">>, "analysis", "medium"),
      Question("What conclusions or implications can be drawn from the information provided?",
               <<"conclusions", "implications">>, "synthesis", "hard")>>

\* ChallengeGenerator._generate_fallback_question: the dictionaries it may
\* return. sentences is what sent_tokenize gives for the text.
GenerateFallbackQuestion(sentences) ==
    IF sentences = <<>> THEN {GenerateFallbackQuestions[1]}
    ELSE {Question("What does the document state about the following: '"
                   \o SubSeq(sentences[i], 1,
                             IF Len(sentences[i]) < KeySentenceLen
                             THEN Len(sentences[i]) ELSE KeySentenceLen)
                   \o "...'?",
                   <<"document content", "key information">>, "comprehension", "easy") :
              i \in 1..(IF Len(sentences) < KeySentenceChoices
                        THEN Len(sentences) ELSE KeySentenceChoices)}

\* The for loop of generate_questions with `attempts` iterations to go: the
\* lists of questions it may end with.
RECURSIVE QuestionLoop(_, _, _, _)
QuestionLoop(attempts, questions, used_concepts, key_concepts) ==
    IF attempts = 0 THEN {questions}
    ELSE UNION {IF question_data = NoQuestion
                THEN QuestionLoop(attempts - 1, questions, used_concepts, key_concepts)
                ELSE QuestionLoop(attempts - 1, Append(questions, question_data),
                                  used_concepts
                                  \cup {question_data.concepts[k] :
                                            k \in 1..Len(question_data.concepts)},
                                  key_concepts) :
                    question_data \in GenerateSingleQuestion(key_concepts, used_concepts)}

\* The while loop of generate_questions and the final questions[:3]: the
\* outcomes it may have. sent_tokenize raises, or gives the sentences.
RECURSIVE PadWithFallbacks(_, _)
PadWithFallbacks(questions, sentences) ==
    IF Len(questions) >= NumQuestions THEN {Ok(Slice(questions, 0, NumQuestions))}
    ELSE IF sentences.raised THEN {Raised}
    ELSE UNION {PadWithFallbacks(Append(questions, fallback), sentences) :
                    fallback \in GenerateFallbackQuestion(sentences.value)}

\* The try block of generate_questions (lines 62-85): the outcomes it may
\* have. tok is what nltk does during the call: tok.words for word_tokenize,
\* tok.sentences for sent_tokenize.
GenerateQuestionsBody(document_text, tok) ==
    LET key_concepts == ExtractKeyConcepts(document_text, tok.words)
    IN IF key_concepts.raised THEN {Raised}
       ELSE IF Len(key_concepts.value) < 2 THEN {Ok(GenerateFallbackQuestions)}
       ELSE UNION {PadWithFallbacks(questions, tok.sentences) :
                       questions \in QuestionLoop(NumQuestions, <<>>, {}, key_concepts.value)}

\* generate_questions with a handler that gives up (return []).
GenerateQuestionsEmptyOnError(document_text, tok) ==
    IF document_text = "" \/ Len(Strip(document_text)) < MinDocumentLen
    THEN {Ok(GenerateFallbackQuestions)}
    ELSE LET body == GenerateQuestionsBody(document_text, tok)
         IN {IF outcome.raised THEN Ok(<<>>) ELSE outcome : outcome \in body}

\* ChallengeGenerator.generate_questions: the outcomes the call may have.
GenerateQuestions(document_text, tok) ==
    IF document_text = "" \/ Len(Strip(document_text)) < MinDocumentLen
    THEN {Ok(GenerateFallbackQuestions)}
    ELSE LET body == GenerateQuestionsBody(document_text, tok)
         IN {IF outcome.raised THEN Ok(GenerateFallbackQuestions) ELSE outcome :
                 outcome \in body}

(***************************************************************************)
(* The challenge specification: generate_questions as a call               *)
(***************************************************************************)

\* Documents of at least 100 characters with three, two and one key concept,
\* a short document and the empty one.
ChallengeDocuments ==
    {"Cats like warm mats. Cats sleep on warm mats. Big cats love warm mats in the quiet house all winter long.",
     "Cats sleep on mats. Cats love mats. Cats need mats in the quiet house all winter long and all summer too.",
     "Cats sleep on mats. Cats love mats. Cats chase birds around the quiet house all winter long and all summer.",
     "Too short.",
     ""}

\* What sent_tokenize may do.
SentenceTokenizings == {Raised, Ok(<<>>), Ok(<<"Cats like warm mats.">>)}

InitChallenge ==
    /\ embedder = "none"
    /\ qa_pipeline = "none"
    /\ pc = "call"
    /\ session_data = EmptyDict
    /\ uploads = EmptyDict
    /\ ret = NoValue
    /\ \E document_text \in ChallengeDocuments, words \in {"ok", "raises"},
          sentences \in SentenceTokenizings :
           /\ call = [op |-> "generate_questions", document_text |-> document_text]
           /\ oracle = [words |-> words, sentences |-> sentences]

GenerateQuestionsCall ==
    /\ pc = "call"
    /\ call.op = "generate_questions"
    /\ ret' \in GenerateQuestions(call.document_text, oracle)
    /\ pc' = "return"
    /\ UNCHANGED <<embedder, qa_pipeline, call, oracle, session_data, uploads>>

NextChallenge == GenerateQuestionsCall

SpecChallenge == InitChallenge /\ [][NextChallenge]_vars

(***************************************************************************)
(* Properties of the challenge generator                                   *)
(***************************************************************************)

QuestionsReturned == pc = "return" /\ call.op = "generate_questions"

\* C3: generate_questions returns exactly 3 questions for every document, and
\* every question has the fields question, concepts, type and difficulty.
C3_ExactlyThreeQuestions ==
    QuestionsReturned =>
        /\ ~ret.raised
        /\ Len(ret.value) = 3
        /\ \A k \in 1..Len(ret.value) :
               /\ DOMAIN ret.value[k] = {"question", "concepts", "type", "difficulty"}
               /\ ret.value[k] # NoQuestion

\* Three questions were generated from the key concepts of a document.
C3_GeneratedWitness ==
    /\ QuestionsReturned
    /\ oracle.words = "ok"
    /\ Len(ret.value) = 3
    /\ \A k \in 1..3 : ret.value[k].type = "logic"
    /\ ret.value[1].concepts # ret.value[2].concepts

\* C22: every question generate_questions returns lists 1 or 2 concepts, and
\* each listed concept occurs literally in the text of the question.
C22_ListedConceptsAreInTheText ==
    QuestionsReturned =>
        /\ ~ret.raised
        /\ \A k \in 1..Len(ret.value) :
               /\ Len(ret.value[k].concepts) \in {1, 2}
               /\ \A c \in 1..Len(ret.value[k].concepts) :
                      Contains(ret.value[k].question, ret.value[k].concepts[c])

\* The documents of at least 100 characters with fewer than 2 key concepts.
FewConceptDocuments ==
    {document_text \in ChallengeDocuments :
        /\ Len(Strip(document_text)) >= MinDocumentLen
        /\ Len(ExtractKeyConcepts(document_text, "ok").value) < 2}

\* generate_questions ran on such a document and the tokenizers worked.
FewConceptsCall ==
    /\ QuestionsReturned
    /\ oracle.words = "ok"
    /\ ~oracle.sentences.raised
    /\ oracle.sentences.value # <<>>
    /\ call.document_text \in FewConceptDocuments

\* C20: on a document of at least 100 characters with fewer than 2 key
\* concepts, every question returned is a sentence-derived fallback question
\* (one of the first 10 sentences, its first 100 characters quoted), none of
\* the three fixed questions.
C20_FewConceptsGiveSentenceQuestions ==
    FewConceptsCall =>
        /\ ~ret.raised
        /\ \A k \in 1..Len(ret.value) :
               /\ ret.value[k] \in GenerateFallbackQuestion(oracle.sentences.value)
               /\ \A g \in 1..Len(GenerateFallbackQuestions) :
                      ret.value[k] # GenerateFallbackQuestions[g]

(***************************************************************************)
(* The ranker specification: _find_relevant_chunks and                     *)
(* _find_relevant_sentences as calls                                       *)
(***************************************************************************)

\* The candidates are the first n sample sentences: as the chunks of the one
\* ranker, and (joined into a document) as the sentences of the other. The
\* degraded paths are run on up to MaxCandidates candidates, the primary path
\* (where the embedder's similarities and their argsort are drawn) on up to
\* MaxRanked.
MaxCandidates == 7
MaxRanked == 4

Candidates(n) == [j \in 1..n |-> SampleSentence(j)]

RankQuestion == "Which sentence is here?"

\* What the embedder may do during a ranking of n candidates.
RankEncodings(emb, n) ==
    IF emb = "none" \/ n <= MaxRanked THEN Encodings(emb, n)
    ELSE {[outcome |-> "raises", sims |-> <<>>, order |-> <<>>]}

InitRank ==
    /\ qa_pipeline = "none"
    /\ pc = "call"
    /\ session_data = EmptyDict
    /\ uploads = EmptyDict
    /\ ret = NoValue
    /\ \E op \in {"find_relevant_chunks", "find_relevant_sentences"},
          n \in 0..MaxCandidates, emb \in {"none", "loaded"} :
           \E enc \in RankEncodings(emb, n) :
               /\ embedder = emb
               /\ call = [op |-> op, question |-> RankQuestion, n |-> n]
               /\ oracle = enc

FindRelevantChunksCall ==
    /\ pc = "call"
    /\ call.op = "find_relevant_chunks"
    /\ ret' = Ok(FindRelevantChunks(call.question, Candidates(call.n), embedder, oracle))
    /\ pc' = "return"
    /\ UNCHANGED <<embedder, qa_pipeline, call, oracle, session_data, uploads>>

FindRelevantSentencesCall ==
    /\ pc = "call"
    /\ call.op = "find_relevant_sentences"
    /\ ret' = Ok(FindRelevantSentences(call.question, SampleDocument(call.n), embedder, oracle))
    /\ pc' = "return"
    /\ UNCHANGED <<embedder, qa_pipeline, call, oracle, session_data, uploads>>

NextRank ==
    \/ FindRelevantChunksCall
    \/ FindRelevantSentencesCall

SpecRank == InitRank /\ [][NextRank]_vars

(***************************************************************************)
(* Properties of the rankers                                               *)
(***************************************************************************)

RankerReturned ==
    pc = "return" /\ call.op \in {"find_relevant_chunks", "find_relevant_sentences"}

\* The ranker ran without similarities: no embedder, or encoding raised.
DegradedRanking == embedder = "none" \/ oracle.outcome = "raises"

\* The ranker ran on the similarities oracle.sims.
PrimaryRanking == embedder = "loaded" /\ oracle.outcome = "ok"

\* The K of the claim for the ranker called: 3 for chunks, 5 for sentences.
RankerK == IF call.op = "find_relevant_chunks" THEN 3 ELSE 5

\* The position of a returned candidate in the candidate list.
CandidateIndex(candidate) == CHOOSE j \in 1..call.n : SampleSentence(j) = candidate

\* C11: on the degraded path (no embedder, or encoding raises) the ranker
\* returns, without failing, a prefix of the candidates in their original
\* order, of length at most K (3 for chunks, 5 for sentences).
C11_DegradedRankerReturnsPrefix ==
    (RankerReturned /\ DegradedRanking) =>
        /\ ~ret.raised
        /\ Len(ret.value) <= RankerK
        /\ Len(ret.value) <= call.n
        /\ ret.value = SubSeq(Candidates(call.n), 1, Len(ret.value))

\* More candidates than K, the embedder loaded and raising, and the result cut.
C11_Witness ==
    /\ RankerReturned
    /\ embedder = "loaded" /\ oracle.outcome = "raises"
    /\ call.n > RankerK
    /\ Len(ret.value) > 0 /\ Len(ret.value) < call.n

\* No candidate has a similarity above the threshold.
NoneAboveThreshold == \A j \in 1..call.n : oracle.sims[j] <= SimilarityThreshold

\* C18: on the primary path, when no candidate is above 0.3, the ranker
\* returns the candidates with the highest similarities (every returned one is
\* at least as similar as every one left out), and the result is not empty
\* when there are candidates.
C18_FallbackIsTopBySimilarity ==
    (RankerReturned /\ PrimaryRanking /\ NoneAboveThreshold) =>
        LET returned == {CandidateIndex(ret.value[k]) : k \in 1..Len(ret.value)}
        IN /\ call.n > 0 => ret.value # <<>>
           /\ \A r \in returned : \A c \in (1..call.n) \ returned :
                  oracle.sims[r] >= oracle.sims[c]

\* C19: on the primary path, returned candidates of equal similarity come in
\* their original order, and a candidate left out by the top-K cut is not
\* tied with a later candidate that was returned.
C19_TiesKeepCandidateOrder ==
    (RankerReturned /\ PrimaryRanking) =>
        LET index == [k \in 1..Len(ret.value) |-> CandidateIndex(ret.value[k])]
            returned == {index[k] : k \in 1..Len(ret.value)}
        IN /\ \A k, l \in 1..Len(ret.value) :
                  (k < l /\ oracle.sims[index[k]] = oracle.sims[index[l]]) =>
                      index[k] < index[l]
           /\ \A c \in (1..call.n) \ returned : \A r \in returned :
                  oracle.sims[c] = oracle.sims[r] => r < c

(***************************************************************************)
(* The reference specification: _generate_references as a call             *)
(***************************************************************************)

\* Documents are concatenations of at most MaxRefPieces pieces: two sentences,
\* a space and newlines (two or more newlines in a row break paragraphs).
MaxRefPieces == 4

RefPieces == {"Cats like red mats.", "The mat was red.", " ", "\n", "\n\n"}

RECURSIVE RefTextsOfPieces(_)
RefTextsOfPieces(n) ==
    IF n = 0 THEN {""} ELSE {t \o p : t \in RefTextsOfPieces(n - 1), p \in RefPieces}

RefDocuments == UNION {RefTextsOfPieces(n) : n \in 0..MaxRefPieces}

\* Evidence sentences: the two of the pieces and one no document holds.
RefSentences == {"Cats like red mats.", "The mat was red.", "Dogs chase the cats."}

RefSentenceLists == {<<>>} \cup {<<a>> : a \in RefSentences}
                    \cup {<<"The mat was red.", "Dogs chase the cats.">>}

InitRef ==
    /\ embedder = "none"
    /\ qa_pipeline = "none"
    /\ pc = "call"
    /\ session_data = EmptyDict
    /\ uploads = EmptyDict
    /\ oracle = NoValue
    /\ ret = NoValue
    /\ \E source_sentences \in RefSentenceLists, document_text \in RefDocuments :
           call = [op |-> "generate_references", source_sentences |-> source_sentences,
                   document_text |-> document_text]

GenerateReferencesCall ==
    /\ pc = "call"
    /\ call.op = "generate_references"
    /\ ret' = Ok(GenerateReferences(call.source_sentences, call.document_text))
    /\ pc' = "return"
    /\ UNCHANGED <<embedder, qa_pipeline, call, oracle, session_data, uploads>>

NextRef == GenerateReferencesCall

SpecRef == InitRef /\ [][NextRef]_vars

(***************************************************************************)
(* Properties of the reference locator                                     *)
(***************************************************************************)

ReferencesReturned == pc = "return" /\ call.op = "generate_references"

\* Where the run of newlines that holds position i starts.
NewlineRunStart(text, i) ==
    MaxOf({j \in 1..i : CharAt(text, j) = "\n" /\ (j = 1 \/ CharAt(text, j - 1) # "\n")})

\* The number of double-newline breaks in the first `len` characters of the
\* text: one for every second newline of a run of newlines.
BreaksBefore(text, len) ==
    Cardinality({i \in 1..len :
                    /\ CharAt(text, i) = "\n"
                    /\ i > 1 /\ CharAt(text, i - 1) = "\n"
                    /\ (i - NewlineRunStart(text, i)) % 2 = 1})

\* C12: _generate_references does not raise; a sentence that occurs in the
\* document is cited as "Based on paragraph P, sentence S" with P = 1 + the
\* number of double-newline breaks before its first occurrence and S >= 1, a
\* sentence that does not occur as "Based on document content".
C12_ReferencesAreIndexCorrect ==
    ReferencesReturned =>
        /\ ~ret.raised
        /\ Len(ret.value) = Len(call.source_sentences)
        /\ \A k \in 1..Len(call.source_sentences) :
               LET sentence == call.source_sentences[k]
                   document_text == call.document_text
                   P == 1 + BreaksBefore(document_text, Find(document_text, sentence))
               IN IF Contains(document_text, sentence)
                  THEN /\ P >= 1
                       /\ \E S \in 1..(MaxRefPieces + 1) :
                              ret.value[k] = "Based on paragraph " \o ToString(P)
                                             \o ", sentence " \o ToString(S)
                  ELSE ret.value[k] = "Based on document content"

\* A sentence cited in the third paragraph, as its second sentence.
C12_Witness ==
    /\ ReferencesReturned
    /\ ret.value = <<"Based on paragraph 3, sentence 2">>

\* A sentence in the first paragraph is cited in paragraph 1, beside a
\* sentence that is not in the document.
C12_FirstParagraphWitness ==
    /\ ReferencesReturned
    /\ ret.value = <<"Based on paragraph 1, sentence 1", "Based on document content">>

(***************************************************************************)
(* The concept specification: _extract_key_concepts and                    *)
(* _generate_single_question as calls                                      *)
(***************************************************************************)

\* Documents of the extractor are built from up to MaxConceptWords distinct
\* words, word j written counts[j] times.
MaxConceptWords == 22

ConceptWord(j) == "word" \o CharAt(LowerLetters, j)

\* How often each of n words is written: all 3 times; the first 3 times and the
\* others 4 times; 1 to 4 times in turn; the last four 3 times and the others
\* twice.
CountProfiles(n) ==
    {[j \in 1..n |-> 3],
     [j \in 1..n |-> IF j = 1 THEN 3 ELSE 4],
     [j \in 1..n |-> (j % 4) + 1],
     [j \in 1..n |-> IF j > n - 4 THEN 3 ELSE 2]}

RECURSIVE JoinByHalves(_, _, _)
JoinByHalves(parts, lo, hi) ==
    IF lo > hi THEN ""
    ELSE IF lo = hi THEN parts[lo]
    ELSE LET mid == (lo + hi) \div 2
         IN JoinByHalves(parts, lo, mid) \o " " \o JoinByHalves(parts, mid + 1, hi)

\* The document of a profile: a preamble with a stop word, short words, capitals
\* and punctuation, then the words in rounds (round r writes, in order, every
\* word that is written at least r times).
ConceptDocument(counts) ==
    LET n == Len(counts)
        slots == {p \in (1..4) \X (1..n) : counts[p[2]] >= p[1]}
        place(p) == Cardinality({q \in slots : q[1] < p[1] \/ (q[1] = p[1] /\ q[2] <= p[2])})
        parts == [k \in 1..Cardinality(slots) |->
                     ConceptWord((CHOOSE p \in slots : place(p) = k)[2])]
    IN "These are The Terms, in rounds: " \o JoinByHalves(parts, 1, Len(parts)) \o "."

ConceptPool == {"cats", "mats", "topic"}

\* The lists of distinct concepts of the pool.
ConceptLists ==
    {<<>>} \cup {<<a>> : a \in ConceptPool}
    \cup {<<p[1], p[2]>> : p \in {q \in ConceptPool \X ConceptPool : q[1] # q[2]}}
    \cup {<<p[1], p[2], p[3]>> :
              p \in {q \in ConceptPool \X ConceptPool \X ConceptPool :
                        q[1] # q[2] /\ q[1] # q[3] /\ q[2] # q[3]}}

InitConcepts ==
    /\ embedder = "none"
    /\ qa_pipeline = "none"
    /\ pc = "call"
    /\ session_data = EmptyDict
    /\ uploads = EmptyDict
    /\ ret = NoValue
    /\ \/ \E n \in 0..MaxConceptWords, tokenizer \in {"ok", "raises"} :
              \E counts \in CountProfiles(n) :
                  /\ call = [op |-> "extract_key_concepts", counts |-> counts,
                             text |-> ConceptDocument(counts)]
                  /\ oracle = [words |-> tokenizer]
       \/ \E key_concepts \in ConceptLists, used_concepts \in SUBSET ConceptPool :
              /\ call = [op |-> "generate_single_question", key_concepts |-> key_concepts,
                         used_concepts |-> used_concepts]
              /\ oracle = NoValue

ExtractKeyConceptsCall ==
    /\ pc = "call"
    /\ call.op = "extract_key_concepts"
    /\ ret' = ExtractKeyConcepts(call.text, oracle.words)
    /\ pc' = "return"
    /\ UNCHANGED <<embedder, qa_pipeline, call, oracle, session_data, uploads>>

GenerateSingleQuestionCall ==
    /\ pc = "call"
    /\ call.op = "generate_single_question"
    /\ \E question_data \in GenerateSingleQuestion(call.key_concepts, call.used_concepts) :
           ret' = Ok(question_data)
    /\ pc' = "return"
    /\ UNCHANGED <<embedder, qa_pipeline, call, oracle, session_data, uploads>>

NextConcepts ==
    \/ ExtractKeyConceptsCall
    \/ GenerateSingleQuestionCall

SpecConcepts == InitConcepts /\ [][NextConcepts]_vars

(***************************************************************************)
(* Properties of template rendering and of the concept extractor           *)
(***************************************************************************)

\* _generate_single_question returned a question (not None).
QuestionRendered ==
    pc = "return" /\ call.op = "generate_single_question" /\ ret.value # NoQuestion

\* The templates the question may have been rendered from: those whose opening
\* text opens the question (the openings of the 10 templates all differ).
TemplatesOf(question) ==
    {t \in 1..Len(QuestionTemplates) :
        Slice(question, 0, Len(QuestionTemplates[t][1].text)) = QuestionTemplates[t][1].text}

\* A template with the slots {concept1} and {concept2}.
TwoSlot(t) ==
    \E k \in 1..Len(QuestionTemplates[t]) :
        QuestionTemplates[t][k].field /\ QuestionTemplates[t][k].text = "concept2"

\* C13: a rendered question holds no unfilled placeholder (no brace), comes
\* from exactly one template, holds the first sampled concept literally, and
\* holds the second one too when its template has two slots.
C13_TemplatesRenderConcepts ==
    QuestionRendered =>
        LET question == ret.value.question
            concepts == ret.value.concepts
        IN /\ ~Contains(question, "{") /\ ~Contains(question, "}")
           /\ Cardinality(TemplatesOf(question)) = 1
           /\ Contains(question, concepts[1])
           /\ \A t \in TemplatesOf(question) : TwoSlot(t) => Contains(question, concepts[2])

\* The two-slot template of the differences, rendered with both concepts.
C13_Witness ==
    /\ QuestionRendered
    /\ ret.value.question = "What are the main differences between cats and topic as described?"
    /\ ret.value.concepts = <<"cats", "topic">>

\* A one-slot template rendered with the first concept only.
C13_OneSlotWitness ==
    /\ QuestionRendered
    /\ ret.value.question = "How does the document define or describe mats?"
    /\ ret.value.concepts = <<"mats", "cats">>

ConceptsExtracted ==
    pc = "return" /\ call.op = "extract_key_concepts" /\ ~ret.raised

\* The word of the profile that a returned term is.
ConceptIndex(term) == CHOOSE j \in 1..Len(call.counts) : ConceptWord(j) = term

\* C14: _extract_key_concepts returns at most 20 terms, in non-increasing order
\* of frequency, each with frequency > 2, longer than 3 characters and no stop
\* word; and they are the 20 most frequent of the terms of frequency > 2 (all
\* of them when there are fewer), ties going to the term seen first.
C14_KeyConceptsAreTopOfFrequent ==
    ConceptsExtracted =>
        LET counts == call.counts
            qualifying == {j \in 1..Len(counts) : counts[j] > 2}
            terms == ret.value
        IN /\ Len(terms) <= 20
           /\ \A k \in 1..Len(terms) :
                  /\ \E j \in qualifying : terms[k] = ConceptWord(j)
                  /\ Len(terms[k]) > 3
                  /\ terms[k] \notin StopWords
           /\ \A k, l \in 1..Len(terms) :
                  k < l => /\ terms[k] # terms[l]
                           /\ counts[ConceptIndex(terms[k])] >= counts[ConceptIndex(terms[l])]
           /\ Len(terms) = (IF Cardinality(qualifying) < 20 THEN Cardinality(qualifying) ELSE 20)
           /\ \A j \in qualifying :
                  (\A k \in 1..Len(terms) : terms[k] # ConceptWord(j)) =>
                      \A k \in 1..Len(terms) :
                          \/ counts[ConceptIndex(terms[k])] > counts[j]
                          \/ /\ counts[ConceptIndex(terms[k])] = counts[j]
                             /\ ConceptIndex(terms[k]) < j

\* More than 20 terms qualify, and the one left out is the first word of the
\* document, which is less frequent than the others.
C14_Witness ==
    /\ ConceptsExtracted
    /\ Len(call.counts) = 21
    /\ call.counts[1] = 3 /\ call.counts[2] = 4
    /\ Len(ret.value) = 20
    /\ \A k \in 1..20 : ret.value[k] # ConceptWord(1)

(***************************************************************************)
(* The span specification: _generate_qa_answer as a call                   *)
(***************************************************************************)

\* The ranked chunks are up to TopChunks different chunks of the cat document.
ChunkPool ==
    LET chunks == SplitDocumentIntoChunks(CatDocument, SmallChunkSize).value
    IN {chunks[k] : k \in 1..Len(chunks)}

RankedChunkLists ==
    UNION {{chunks \in [1..m -> ChunkPool] :
               \A k, l \in 1..m : k # l => chunks[k] # chunks[l]} : m \in 0..TopChunks}

\* Confidences of the span extractor, in tenths.
SpanScores == {3, 6}

SpanAnswers == {"mat", "red", "Cats"}

\* What the span extractor may do on a chunk: raise, report no answer, or
\* return a span of the chunk with a confidence.
SpanOutcomes(chunk) ==
    {[kind |-> "raises", answer |-> "", score |-> 0],
     [kind |-> "result", answer |-> "", score |-> 6]}
    \cup {[kind |-> "result", answer |-> answer, score |-> score] :
              answer \in {a \in SpanAnswers : Contains(chunk, a)}, score \in SpanScores}

SpanQuestions == {StrQuestion(CatQuestion), StrQuestion("What do cats like?")}

InitSpan ==
    \E question \in SpanQuestions, chunks \in RankedChunkLists :
        \E results \in {r \in [1..Len(chunks) -> UNION {SpanOutcomes(c) : c \in ChunkPool}] :
                           \A k \in 1..Len(chunks) : r[k] \in SpanOutcomes(chunks[k])} :
            /\ embedder = "none"
            /\ qa_pipeline = "loaded"
            /\ pc = "call"
            /\ session_data = EmptyDict
            /\ uploads = EmptyDict
            /\ call = [op |-> "generate_qa_answer", question |-> question, chunks |-> chunks]
            /\ oracle = [results |-> results]
            /\ ret = NoValue

GenerateQAAnswerCall ==
    /\ pc = "call"
    /\ call.op = "generate_qa_answer"
    /\ ret' = GenerateQAAnswer(call.question, call.chunks, oracle.results)
    /\ pc' = "return"
    /\ UNCHANGED <<embedder, qa_pipeline, call, oracle, session_data, uploads>>

NextSpan == GenerateQAAnswerCall

SpecSpan == InitSpan /\ [][NextSpan]_vars

(***************************************************************************)
(* Properties of the span-extractor path                                   *)
(***************************************************************************)

SpanReturned == pc = "return" /\ call.op = "generate_qa_answer"

\* The ranked chunks on which the extractor returned a non-empty answer.
Answered ==
    {k \in 1..Len(call.chunks) :
        oracle.results[k].kind = "result" /\ oracle.results[k].answer # ""}

\* The first of the answered chunks of highest confidence.
Winner ==
    MinOf({k \in Answered :
              \A l \in Answered : oracle.results[l].score <= oracle.results[k].score})

\* C16: when some chunk is answered, the evidence is the first sentence of the
\* winning chunk that contains the winning answer (case-insensitive), and
\* nothing else: no sentence selected for an earlier, superseded answer.
C16_EvidenceIsOfTheWinningAnswer ==
    (SpanReturned /\ Answered # {}) =>
        ret.value.source_sentences
            = FirstSentenceWith(SplitIntoSentences(call.chunks[Winner]),
                                oracle.results[Winner].answer)

C17_LexicalWitness ==
    /\ SpanReturned
    /\ Len(call.chunks) = 2
    /\ Answered = {}
    /\ ~ret.raised
    /\ ret.value.source_sentences # <<>>

(***************************************************************************)
(* app.py: the routes, one step at a time                                  *)
(***************************************************************************)

\* jsonify(body), status
Response(status, body) == [status |-> status, body |-> body]
ErrorBody(message) == [error |-> message]

\* str.endswith(suffix)
EndsWith(s, suffix) ==
    Len(s) >= Len(suffix) /\ SubSeq(s, Len(s) - Len(suffix) + 1, Len(s)) = suffix

\* file.filename.lower().endswith(('.pdf', '.txt'))
AllowedFile(filename) ==
    EndsWith(Lower(filename), ".pdf") \/ EndsWith(Lower(filename), ".txt")

\* werkzeug's secure_filename on names of letters, digits, dots and spaces:
\* a space becomes an underscore.
RECURSIVE SecureFilename(_)
SecureFilename(name) ==
    IF name = "" THEN ""
    ELSE (IF CharAt(name, 1) = " " THEN "_" ELSE CharAt(name, 1))
         \o SecureFilename(SubSeq(name, 2, Len(name)))

\* datetime.now().strftime("%Y%m%d_%H%M%S") in second `now` of the clock.
Timestamp(now) == "20240101_12000" \o CharAt(Digits, now + 1)

\* os.path.join(app.config['UPLOAD_FOLDER'], safe_filename)
UploadPath(now, filename) == "uploads/" \o Timestamp(now) \o "_" \o filename

\* DocumentParser._clean_text on texts of letters, spaces, newlines and the
\* punctuation . , ? (no digit, no other character): runs of whitespace become
\* one space and the ends are stripped.
CleanText(text) ==
    LET starts == {i \in 1..Len(text) :
                      ~IsSpace(CharAt(text, i)) /\ (i = 1 \/ IsSpace(CharAt(text, i - 1)))}
        end(i) == MinOf({j \in i..Len(text) : j = Len(text) \/ IsSpace(CharAt(text, j + 1))})
        parts == [k \in 1..Cardinality(starts) |->
                     LET i == CHOOSE i \in starts : Cardinality({j \in starts : j <= i}) = k
                     IN SubSeq(text, i, end(i))]
    IN JoinByHalves(parts, 1, Len(parts))

\* The contents of the .txt files that are uploaded.
FileContents ==
    {"Cats like red mats.\nThe red mats are warm.  Cats sleep on warm mats.",
     CatDocument,
     "Too short."}

\* DocumentParser._parse_txt of a file with the given content.
ParseTxt == [content \in FileContents |-> CleanText(content)]

\* DocumentParser.parse of a .txt path: FileNotFoundError when the file is not
\* there, its cleaned text otherwise.
Parse(filepath, files) ==
    IF filepath \notin DOMAIN files THEN Raised ELSE Ok(ParseTxt[files[filepath]])

\* The shortest stripped document that is accepted.
MinUploadLen == 50

\* The documents a session can hold.
SessionTexts == {ParseTxt[content] : content \in FileContents}

\* DocumentSummarizer.summarize on a text of fewer than 100 characters
\* (the documents of the sessions are that short).
Summarize(text) == IF Len(text) > 200 THEN Slice(text, 0, 200) \o "..." ELSE text

\* The questions that are asked.
AskedQuestions == {"", "What do cats like?"}

\* qa_engine.answer_question(question, document_text) with both models absent.
AnswerTable ==
    [question \in AskedQuestions, document_text \in SessionTexts |->
        AnswerQuestion(StrQuestion(question), document_text, DefaultChunkSize, "none", "none",
                       [enc |-> [outcome |-> "unused", sims |-> <<>>, order |-> <<>>],
                        results |-> <<>>]).value]

\* challenge_generator.generate_questions(document_text): the documents of
\* the sessions have fewer than 100 characters, the result is fixed.
ChallengeTable ==
    [document_text \in SessionTexts |->
        (CHOOSE outcome \in GenerateQuestions(document_text,
                                              [words |-> "ok", sentences |-> Ok(<<>>)]) :
             TRUE).value]

\* The answers that are submitted for evaluation.
SubmittedAnswers == {"", "Red mats."}

\* answer_evaluator.evaluate_answer(question, user_answer, document_text) with
\* the embedder absent, for each of the 3 questions of a challenge.
EvaluationTable ==
    [index \in 1..NumQuestions, user_answer \in SubmittedAnswers, document_text \in SessionTexts |->
        LET question == ChallengeTable[document_text][index]
        IN (CHOOSE outcome \in
                EvaluateAnswer(DictQuestion(question.question, question.concepts),
                               StrAnswer(user_answer), document_text, "none",
                               [rank |-> [outcome |-> "unused", sims |-> <<>>, order |-> <<>>],
                                sem |-> [outcome |-> "unused", sims |-> <<>>]]) :
                TRUE).value]

\* A request: its route and what the client sends with it.
Request(op, file, question, index, answer) ==
    [op |-> op, has_file |-> file.present, filename |-> file.filename,
     content |-> file.content, question |-> question, has_index |-> index.present,
     question_index |-> index.value, answer |-> answer]

NoFile == [present |-> FALSE, filename |-> "", content |-> ""]
File(filename, content) == [present |-> TRUE, filename |-> filename, content |-> content]
NoIndex == [present |-> FALSE, value |-> 0]
Index(value) == [present |-> TRUE, value |-> value]

\* The handler's local variables, before it has set them.
NoAnswer == Triple("", <<>>, <<>>)
NewCall(request) ==
    [request |-> request, filename |-> "", filepath |-> "", document_text |-> "",
     answer |-> NoAnswer, questions |-> <<>>]
NoCall == NewCall(Request("none", NoFile, "", NoIndex, ""))

\* session_data[session_id] as upload_document writes it (upload_time, a
\* wall-clock reading, is left out).
NoChallenge == [present |-> FALSE, questions |-> <<>>]
Entry(document_text, filename) ==
    [document_text |-> document_text, filename |-> filename,
     conversation_history |-> <<>>, current_challenge |-> NoChallenge]

\* The handler returns: the response goes to the client's log.
Finish(m, response) ==
    [m EXCEPT !.pc = "idle",
              !.ret = Append(m.ret, [request |-> m.call.request, response |-> response]),
              !.call = NoCall]

\* upload_document, lines 56-74: the validations and file.save(filepath).
UploadSaveStep(s, m, now) ==
    LET request == m.call.request
    IN IF ~request.has_file THEN Finish(m, Response(400, ErrorBody("No file provided")))
       ELSE IF request.filename = ""
       THEN Finish(m, Response(400, ErrorBody("No file selected")))
       ELSE IF ~AllowedFile(request.filename)
       THEN Finish(m, Response(400, ErrorBody(
                "Invalid file type. Only PDF and TXT files are allowed.")))
       ELSE LET filename == SecureFilename(request.filename)
                filepath == UploadPath(now, filename)
            IN [m EXCEPT !.uploads = Put(m.uploads, filepath, request.content),
                         !.call.filename = filename,
                         !.call.filepath = filepath,
                         !.pc = "upload_parse"]

\* upload_document, lines 76-80: document_parser.parse(filepath) and the
\* length test.
UploadParseStep(s, m, now) ==
    LET parsed == Parse(m.call.filepath, m.uploads)
    IN IF parsed.raised
       THEN Finish(m, Response(500, ErrorBody(
                "Upload failed: File not found: " \o m.call.filepath)))
       ELSE IF parsed.value = "" \/ Len(Strip(parsed.value)) < MinUploadLen
       THEN Finish(m, Response(400, ErrorBody(
                "Document is too short or could not be parsed")))
       ELSE [m EXCEPT !.call.document_text = parsed.value, !.pc = "upload_store"]

\* Variant of the store step that updates an entry in place: a challenge of
\* the previous document stays in the session.
UploadStoreStepInPlace(s, m, now) ==
    [m EXCEPT !.session_data =
                  IF s \in DOMAIN m.session_data
                  THEN Put(m.session_data, s,
                           [m.session_data[s] EXCEPT !.document_text = m.call.document_text,
                                                     !.filename = m.call.filename,
                                                     !.conversation_history = <<>>])
                  ELSE Put(m.session_data, s, Entry(m.call.document_text, m.call.filename)),
              !.pc = "upload_remove"]

\* upload_document, lines 82-92: the summary and the session entry.
UploadStoreStep(s, m, now) ==
    [m EXCEPT !.session_data =
                  Put(m.session_data, s, Entry(m.call.document_text, m.call.filename)),
              !.pc = "upload_remove"]

\* upload_document, lines 94-103: os.remove(filepath) and the response.
UploadRemoveStep(s, m, now) ==
    IF m.call.filepath \notin DOMAIN m.uploads
    THEN Finish(m, Response(500, ErrorBody(
             "Upload failed: [Errno 2] No such file or directory: '"
             \o m.call.filepath \o "'")))
    ELSE Finish([m EXCEPT !.uploads = Del(m.uploads, m.call.filepath)],
                Response(200, [success |-> TRUE,
                               summary |-> Summarize(m.call.document_text),
                               filename |-> m.call.filename,
                               word_count |-> SplitCount(m.call.document_text),
                               session_id |-> s]))

\* ask_question, lines 112-125: the validations, the read of the session's
\* document and qa_engine.answer_question.
AskReadStep(s, m, now) ==
    IF m.call.request.question = ""
    THEN Finish(m, Response(400, ErrorBody("No question provided")))
    ELSE IF s \notin DOMAIN m.session_data
    THEN Finish(m, Response(400, ErrorBody(
             "No document uploaded. Please upload a document first.")))
    ELSE LET document_text == m.session_data[s].document_text
         IN [m EXCEPT !.call.document_text = document_text,
                      !.call.answer = AnswerTable[m.call.request.question, document_text],
                      !.pc = "ask_record"]

\* ask_question, lines 127-147: the two appends to the history (without their
\* timestamps) and the response. A session that is gone is a KeyError.
AskRecordStep(s, m, now) ==
    IF s \notin DOMAIN m.session_data
    THEN Finish(m, Response(500, ErrorBody("Question processing failed: '" \o s \o "'")))
    ELSE LET answer == m.call.answer
             history == m.session_data[s].conversation_history
                        \o <<[type |-> "question", content |-> m.call.request.question,
                              references |-> <<>>, source_sentences |-> <<>>],
                             [type |-> "answer", content |-> answer.answer,
                              references |-> answer.references,
                              source_sentences |-> answer.source_sentences]>>
         IN Finish([m EXCEPT !.session_data[s].conversation_history = history],
                   Response(200, [success |-> TRUE, answer |-> answer.answer,
                                  references |-> answer.references,
                                  source_sentences |-> answer.source_sentences]))

\* generate_challenge, lines 155-163: the read of the session's document and
\* challenge_generator.generate_questions.
ChallengeReadStep(s, m, now) ==
    IF s \notin DOMAIN m.session_data
    THEN Finish(m, Response(400, ErrorBody(
             "No document uploaded. Please upload a document first.")))
    ELSE LET document_text == m.session_data[s].document_text
         IN [m EXCEPT !.call.document_text = document_text,
                      !.call.questions = ChallengeTable[document_text],
                      !.pc = "challenge_store"]

\* generate_challenge, lines 165-174: the challenge is stored (without
\* generated_at) and returned.
ChallengeStoreStep(s, m, now) ==
    IF s \notin DOMAIN m.session_data
    THEN Finish(m, Response(500, ErrorBody("Challenge generation failed: '" \o s \o "'")))
    ELSE Finish([m EXCEPT !.session_data[s].current_challenge =
                              [present |-> TRUE, questions |-> m.call.questions]],
                Response(200, [success |-> TRUE, questions |-> m.call.questions]))

\* evaluate_answer (the route), lines 183-210.
EvaluateStep(s, m, now) ==
    LET request == m.call.request
    IN IF ~request.has_index \/ request.answer = ""
       THEN Finish(m, Response(400, ErrorBody("Question index and answer are required")))
       ELSE IF s \notin DOMAIN m.session_data \/ ~m.session_data[s].current_challenge.present
       THEN Finish(m, Response(400, ErrorBody("No active challenge found")))
       ELSE LET questions == m.session_data[s].current_challenge.questions
                index == request.question_index
            IN IF index >= Len(questions)
               THEN Finish(m, Response(400, ErrorBody("Invalid question index")))
               ELSE IF index < -Len(questions)
               THEN Finish(m, Response(500, ErrorBody(
                        "Answer evaluation failed: list index out of range")))
               ELSE LET position == IF index < 0 THEN Len(questions) + index + 1
                                    ELSE index + 1
                    IN Finish(m, Response(200,
                           [success |-> TRUE,
                            evaluation |-> EvaluationTable[position, request.answer,
                                               m.session_data[s].document_text]]))

\* reset_session, lines 218-227.
ResetStep(s, m, now) ==
    Finish([m EXCEPT !.session_data =
                         IF s \in DOMAIN m.session_data THEN Del(m.session_data, s)
                         ELSE m.session_data],
           Response(200, [success |-> TRUE, message |-> "Session reset successfully"]))

\* Where the handler of a route starts.
EntryOf(op) ==
    CASE op = "upload" -> "upload_save"
      [] op = "ask" -> "ask_read"
      [] op = "challenge" -> "challenge_read"
      [] op = "evaluate" -> "evaluate"
      [] op = "reset" -> "reset"

\* The next step of the request of session s in machine m (the session store,
\* the upload folder and the handler's position, locals and responses).
Do(s, m, now) ==
    CASE m.pc = "upload_save" -> UploadSaveStep(s, m, now)
      [] m.pc = "upload_parse" -> UploadParseStep(s, m, now)
      [] m.pc = "upload_store" -> UploadStoreStep(s, m, now)
      [] m.pc = "upload_remove" -> UploadRemoveStep(s, m, now)
      [] m.pc = "ask_read" -> AskReadStep(s, m, now)
      [] m.pc = "ask_record" -> AskRecordStep(s, m, now)
      [] m.pc = "challenge_read" -> ChallengeReadStep(s, m, now)
      [] m.pc = "challenge_store" -> ChallengeStoreStep(s, m, now)
      [] m.pc = "evaluate" -> EvaluateStep(s, m, now)
      [] m.pc = "reset" -> ResetStep(s, m, now)

(***************************************************************************)
(* The application specification: two sessions, their requests interleaved *)
(***************************************************************************)

\* The X-Session-ID values of the two clients.
Sessions == {"A", "B"}

\* How many requests a client sends, one after the other.
MaxRequests == 2

\* The last second of the clock.
MaxSeconds == 1

Requests ==
    {Request("upload", file, "", NoIndex, "") :
         file \in {NoFile, File("", CatDocument), File("notes.md", CatDocument),
                   File("my notes.txt", CatDocument)}
                  \cup {File("notes.txt", content) : content \in FileContents}}
    \cup {Request("ask", NoFile, question, NoIndex, "") : question \in AskedQuestions}
    \cup {Request("challenge", NoFile, "", NoIndex, "")}
    \cup {Request("evaluate", NoFile, "", NoIndex, "Red mats."),
          Request("evaluate", NoFile, "", Index(0), ""),
          Request("evaluate", NoFile, "", Index(0), "Red mats."),
          Request("evaluate", NoFile, "", Index(3), "Red mats.")}
    \cup {Request("reset", NoFile, "", NoIndex, "")}

InitApp ==
    /\ embedder = "none"
    /\ qa_pipeline = "none"
    /\ pc = [s \in Sessions |-> "idle"]
    /\ call = [s \in Sessions |-> NoCall]
    /\ oracle = [now |-> 0]
    /\ ret = [s \in Sessions |-> <<>>]
    /\ session_data = EmptyDict
    /\ uploads = EmptyDict

\* The machine as the handler of session s sees it.
Machine(s) ==
    [session_data |-> session_data, uploads |-> uploads,
     pc |-> pc[s], call |-> call[s], ret |-> ret[s]]

\* The handler of session s has taken a step that leaves machine m.
Takes(s, m) ==
    /\ session_data' = m.session_data
    /\ uploads' = m.uploads
    /\ pc' = [pc EXCEPT ![s] = m.pc]
    /\ call' = [call EXCEPT ![s] = m.call]
    /\ ret' = [ret EXCEPT ![s] = m.ret]

\* The client of session s sends its next request.
SendRequest(s) ==
    /\ pc[s] = "idle"
    /\ Len(ret[s]) < MaxRequests
    /\ \E request \in Requests :
           /\ call' = [call EXCEPT ![s] = NewCall(request)]
           /\ pc' = [pc EXCEPT ![s] = EntryOf(request.op)]
    /\ UNCHANGED <<embedder, qa_pipeline, oracle, ret, session_data, uploads>>

UploadDocumentSave(s) ==
    /\ pc[s] = "upload_save"
    /\ Takes(s, UploadSaveStep(s, Machine(s), oracle.now))
    /\ UNCHANGED <<embedder, qa_pipeline, oracle>>

UploadDocumentParse(s) ==
    /\ pc[s] = "upload_parse"
    /\ Takes(s, UploadParseStep(s, Machine(s), oracle.now))
    /\ UNCHANGED <<embedder, qa_pipeline, oracle>>

UploadDocumentStore(s) ==
    /\ pc[s] = "upload_store"
    /\ Takes(s, UploadStoreStep(s, Machine(s), oracle.now))
    /\ UNCHANGED <<embedder, qa_pipeline, oracle>>

UploadDocumentRemove(s) ==
    /\ pc[s] = "upload_remove"
    /\ Takes(s, UploadRemoveStep(s, Machine(s), oracle.now))
    /\ UNCHANGED <<embedder, qa_pipeline, oracle>>

AskQuestionRead(s) ==
    /\ pc[s] = "ask_read"
    /\ Takes(s, AskReadStep(s, Machine(s), oracle.now))
    /\ UNCHANGED <<embedder, qa_pipeline, oracle>>

AskQuestionRecord(s) ==
    /\ pc[s] = "ask_record"
    /\ Takes(s, AskRecordStep(s, Machine(s), oracle.now))
    /\ UNCHANGED <<embedder, qa_pipeline, oracle>>

GenerateChallengeRead(s) ==
    /\ pc[s] = "challenge_read"
    /\ Takes(s, ChallengeReadStep(s, Machine(s), oracle.now))
    /\ UNCHANGED <<embedder, qa_pipeline, oracle>>

GenerateChallengeStore(s) ==
    /\ pc[s] = "challenge_store"
    /\ Takes(s, ChallengeStoreStep(s, Machine(s), oracle.now))
    /\ UNCHANGED <<embedder, qa_pipeline, oracle>>

EvaluateAnswerRoute(s) ==
    /\ pc[s] = "evaluate"
    /\ Takes(s, EvaluateStep(s, Machine(s), oracle.now))
    /\ UNCHANGED <<embedder, qa_pipeline, oracle>>

ResetSession(s) ==
    /\ pc[s] = "reset"
    /\ Takes(s, ResetStep(s, Machine(s), oracle.now))
    /\ UNCHANGED <<embedder, qa_pipeline, oracle>>

\* The clock moves on to the next second.
Tick ==
    /\ oracle.now < MaxSeconds
    /\ oracle' = [now |-> oracle.now + 1]
    /\ UNCHANGED <<embedder, qa_pipeline, pc, call, ret, session_data, uploads>>

NextApp ==
    \/ \E s \in Sessions : SendRequest(s)
    \/ \E s \in Sessions : UploadDocumentSave(s)
    \/ \E s \in Sessions : UploadDocumentParse(s)
    \/ \E s \in Sessions : UploadDocumentStore(s)
    \/ \E s \in Sessions : UploadDocumentRemove(s)
    \/ \E s \in Sessions : AskQuestionRead(s)
    \/ \E s \in Sessions : AskQuestionRecord(s)
    \/ \E s \in Sessions : GenerateChallengeRead(s)
    \/ \E s \in Sessions : GenerateChallengeStore(s)
    \/ \E s \in Sessions : EvaluateAnswerRoute(s)
    \/ \E s \in Sessions : ResetSession(s)
    \/ Tick

SpecApp == InitApp /\ [][NextApp]_vars

(***************************************************************************)
(* Properties of the application                                           *)
(***************************************************************************)

\* The requests of session s served one after the other, to the end, with no
\* other session: the machine they leave.
RECURSIVE RunAlone(_, _, _)
RunAlone(s, m, requests) ==
    IF m.pc # "idle" THEN RunAlone(s, Do(s, m, 0), requests)
    ELSE IF requests = <<>> THEN m
    ELSE RunAlone(s, [m EXCEPT !.pc = EntryOf(Head(requests).op),
                               !.call = NewCall(Head(requests))],
                  Tail(requests))

Alone(s) ==
    RunAlone(s, [session_data |-> EmptyDict, uploads |-> EmptyDict,
                 pc |-> "idle", call |-> NoCall, ret |-> <<>>],
             [k \in 1..Len(ret[s]) |-> ret[s][k].request])

\* C15: whenever a session has no request in flight, the responses it got and
\* its entry in session_data are those its requests give when they run alone,
\* whatever the other session did in between.
C15_SessionsAreIndependent ==
    \A s \in Sessions :
        pc[s] = "idle" =>
            LET alone == Alone(s)
            IN /\ ret[s] = alone.ret
               /\ (s \in DOMAIN session_data) = (s \in DOMAIN alone.session_data)
               /\ s \in DOMAIN session_data =>
                      session_data[s] = alone.session_data[s]

(***************************************************************************)
(* The loop specification: the three attempts of generate_questions        *)
(***************************************************************************)

\* The pools of key concepts have 2 to MaxPool concepts.
MaxPool == 6

ConceptPools == {[j \in 1..n |-> ConceptWord(j)] : n \in 2..MaxPool}

\* The templates random.choice may pick during a call: a one-slot and a
\* two-slot template, or two others.
TemplateChoices == {{1, 2}, {6, 9}}

\* used_concepts after the questions: the concepts of all of them.
UsedBy(questions) ==
    UNION {{questions[k].concepts[c] : c \in 1..Len(questions[k].concepts)} :
               k \in 1..Len(questions)}

InitLoop ==
    /\ embedder = "none"
    /\ qa_pipeline = "none"
    /\ pc = "for"
    /\ session_data = EmptyDict
    /\ uploads = EmptyDict
    /\ ret = NoValue
    /\ \E key_concepts \in ConceptPools, templates \in TemplateChoices :
           /\ call = [op |-> "generate_questions_loop", key_concepts |-> key_concepts,
                      questions |-> <<>>]
           /\ oracle = [templates |-> templates]

\* One iteration of `for i in range(3)` (lines 72-78), with a template of the
\* oracle.
QuestionAttempt ==
    /\ pc = "for"
    /\ Len(call.questions) < NumQuestions
    /\ \E questions \in QuestionLoop(1, call.questions, UsedBy(call.questions),
                                     call.key_concepts) :
           /\ TemplatesOf(questions[Len(questions)].question) \subseteq oracle.templates
           /\ call' = [call EXCEPT !.questions = questions]
    /\ UNCHANGED <<embedder, qa_pipeline, pc, oracle, ret, session_data, uploads>>

\* The loop is over: the questions are returned (line 85).
QuestionLoopExit ==
    /\ pc = "for"
    /\ Len(call.questions) = NumQuestions
    /\ ret' = Ok(Slice(call.questions, 0, NumQuestions))
    /\ pc' = "return"
    /\ UNCHANGED <<embedder, qa_pipeline, call, oracle, session_data, uploads>>

NextLoop ==
    \/ QuestionAttempt
    \/ QuestionLoopExit

SpecLoop == InitLoop /\ [][NextLoop]_vars

(***************************************************************************)
(* Properties of the three attempts                                        *)
(***************************************************************************)

\* The concepts of question k of the call, as a set.
ConceptsOf(k) ==
    {call.questions[k].concepts[c] : c \in 1..Len(call.questions[k].concepts)}

\* The concepts of the pool no question before question k has used.
UnusedBefore(k) ==
    {call.key_concepts[j] : j \in 1..Len(call.key_concepts)}
    \ UsedBy(SubSeq(call.questions, 1, k - 1))

\* C21: every generated question lists two different concepts; it lists a
\* concept of an earlier question of the call only if fewer than 2 unused
\* concepts remained; with a pool of at least 6 concepts the questions use
\* pairwise disjoint pairs.
C21_ConceptsAreNotRepeated ==
    call.op = "generate_questions_loop" =>
        /\ \A k \in 1..Len(call.questions) :
               /\ Len(call.questions[k].concepts) = 2
               /\ Cardinality(ConceptsOf(k)) = 2
               /\ ConceptsOf(k) \subseteq UnusedBefore(k)
                  \/ Cardinality(UnusedBefore(k)) < 2
        /\ Len(call.key_concepts) >= 6 =>
               \A k, l \in 1..Len(call.questions) :
                   k # l => ConceptsOf(k) \cap ConceptsOf(l) = {}

\* Three questions from a pool of 6 concepts: every concept is used once.
C21_Witness ==
    /\ pc = "return"
    /\ call.op = "generate_questions_loop"
    /\ Len(call.key_concepts) = 6
    /\ Len(ret.value) = 3
    /\ UsedBy(ret.value) = {call.key_concepts[j] : j \in 1..6}

\* A pool of 3 concepts: the second question had to reuse concepts.
C21_ReuseWitness ==
    /\ pc = "return"
    /\ call.op = "generate_questions_loop"
    /\ Len(call.key_concepts) = 3
    /\ ConceptsOf(2) \cap ConceptsOf(1) # {}

(***************************************************************************)
(* The signal specification: the three signals of the evaluator as calls   *)
(***************************************************************************)

\* The answers that are scored.
SignalAnswers ==
    {"", "Red mats.", "Cats like warm mats.", "cats and mats",
     "The main topic is the document content.",
     "The key points and the arguments.",
     "Conclusions and implications.",
     "Document content and key information."}

\* The concept lists of the questions generate_questions produces: those of
\* the fixed questions, of a sentence-derived question and of the questions
\* rendered from three key concepts.
QuestionConceptLists ==
    {GenerateFallbackQuestions[g].concepts : g \in 1..Len(GenerateFallbackQuestions)}
    \cup {q.concepts : q \in GenerateFallbackQuestion(<<"Cats like warm mats.">>)}
    \cup {q.concepts : q \in GenerateSingleQuestion(<<"cats", "mats", "warm">>, {})}

SignalConceptLists == QuestionConceptLists \cup {<<>>, <<"?">>}

\* The lists of relevant sentences.
SignalSentenceLists ==
    {<<>>, <<"Cats like warm mats.">>, <<"The mat was red.", "Cats like red mats.">>,
     <<"It is so.">>}

InitSignals ==
    /\ qa_pipeline = "none"
    /\ pc = "call"
    /\ session_data = EmptyDict
    /\ uploads = EmptyDict
    /\ ret = NoValue
    /\ \/ \E user_answer \in SignalAnswers, relevant_sentences \in SignalSentenceLists,
             emb \in {"none", "loaded"} :
              \E sem \in SemEncodings(emb, Len(relevant_sentences)) :
                  /\ embedder = emb
                  /\ call = [op |-> "calculate_semantic_similarity",
                             user_answer |-> user_answer,
                             relevant_sentences |-> relevant_sentences]
                  /\ oracle = sem
       \/ \E user_answer \in SignalAnswers, expected_concepts \in SignalConceptLists :
              /\ embedder = "none"
              /\ call = [op |-> "calculate_keyword_overlap", user_answer |-> user_answer,
                         expected_concepts |-> expected_concepts]
              /\ oracle = NoValue
       \/ \E user_answer \in SignalAnswers, relevant_sentences \in SignalSentenceLists :
              /\ embedder = "none"
              /\ call = [op |-> "calculate_content_relevance", user_answer |-> user_answer,
                         relevant_sentences |-> relevant_sentences]
              /\ oracle = NoValue

CalculateSemanticSimilarityCall ==
    /\ pc = "call"
    /\ call.op = "calculate_semantic_similarity"
    /\ ret' = Ok(CalculateSemanticSimilarity(call.relevant_sentences, embedder, oracle))
    /\ pc' = "return"
    /\ UNCHANGED <<embedder, qa_pipeline, call, oracle, session_data, uploads>>

CalculateKeywordOverlapCall ==
    /\ pc = "call"
    /\ call.op = "calculate_keyword_overlap"
    /\ ret' = Ok(CalculateKeywordOverlap(call.user_answer, call.expected_concepts))
    /\ pc' = "return"
    /\ UNCHANGED <<embedder, qa_pipeline, call, oracle, session_data, uploads>>

CalculateContentRelevanceCall ==
    /\ pc = "call"
    /\ call.op = "calculate_content_relevance"
    /\ ret' = Ok(CalculateContentRelevance(call.user_answer, call.relevant_sentences))
    /\ pc' = "return"
    /\ UNCHANGED <<embedder, qa_pipeline, call, oracle, session_data, uploads>>

NextSignals ==
    \/ CalculateSemanticSimilarityCall
    \/ CalculateKeywordOverlapCall
    \/ CalculateContentRelevanceCall

SpecSignals == InitSignals /\ [][NextSignals]_vars

(***************************************************************************)
(* Properties of the signals                                               *)
(***************************************************************************)

SignalReturned ==
    /\ pc = "return"
    /\ call.op \in {"calculate_semantic_similarity", "calculate_keyword_overlap",
                    "calculate_content_relevance"}

\* C23: each of the three signals lies in [0, 1].
C23_SignalsInUnitRange == SignalReturned => InUnitRange(ret.value)

KeywordReturned == pc = "return" /\ call.op = "calculate_keyword_overlap"

\* The answer holds every word of every expected concept.
AnswerHoldsAllConceptWords ==
    ConceptWords(call.expected_concepts) \subseteq Words(Lower(call.user_answer))

\* C29: for the concept list of a question generate_questions produces, an
\* answer that holds every word of every expected concept gets keyword
\* score 1.
C29_FullAnswerScoresOne ==
    (/\ KeywordReturned
     /\ call.expected_concepts \in QuestionConceptLists
     /\ AnswerHoldsAllConceptWords) =>
        ret.value = Rat(1, 1)


\* ---------------------------------------------------------------------------
\* The lexical path on its own: _generate_fallback_answer is called with a
\* question and a list of ranked chunks.
\* ---------------------------------------------------------------------------

\* A chunk of two long sentences: joined they are longer than 300 characters.
LongChunk ==
    "Cats that live in large houses like to sleep on warm mats near the window because the light of the morning sun makes the wool look bright and golden in every season."
    \o " "
    \o "What most people never notice is that the color of a mat changes slowly over the years as the sun, the dust and the paws of many cats wear down the wool."

\* The chunks of the cat document (windows of two sentences that share a
\* sentence) and the long chunk.
LexicalChunkPool == ChunkPool \cup {LongChunk}

\* Ranked lists of up to TopChunks distinct chunks.
LexicalChunkLists ==
    UNION {{chunks \in [1..m -> LexicalChunkPool] :
               \A k, l \in 1..m : k # l => chunks[k] # chunks[l]} : m \in 0..TopChunks}

\* Questions with two, three, no, eight and six words of more than three
\* letters.
LexicalQuestions ==
    {CatQuestion, "What do cats like?", "Is it so?",
     "Which color would cats like their mats have?",
     "Which mats would have their color?"}

InitLexical ==
    \E question \in LexicalQuestions, chunks \in LexicalChunkLists :
        /\ embedder = "none"
        /\ qa_pipeline = "none"
        /\ pc = "call"
        /\ session_data = EmptyDict
        /\ uploads = EmptyDict
        /\ call = [op |-> "generate_fallback_answer",
                   question |-> StrQuestion(question), chunks |-> chunks]
        /\ oracle = NoValue
        /\ ret = NoValue

GenerateFallbackAnswerCall ==
    /\ pc = "call"
    /\ call.op = "generate_fallback_answer"
    /\ ret' = GenerateFallbackAnswer(call.question, call.chunks)
    /\ pc' = "return"
    /\ UNCHANGED <<embedder, qa_pipeline, call, oracle, session_data, uploads>>

NextLexical == GenerateFallbackAnswerCall

SpecLexical == InitLexical /\ [][NextLexical]_vars

LexicalReturned ==
    pc = "return" /\ call.op = "generate_fallback_answer" /\ ~ret.raised

\* The sentences of the ranked chunks.
CandidateSentences ==
    UNION {{SplitIntoSentences(call.chunks[k])[i] :
               i \in 1..Len(SplitIntoSentences(call.chunks[k]))} : k \in 1..Len(call.chunks)}

\* The number of question words (of more than three letters) in a sentence;
\* the overlap ratio is this number over the number of question words.
OverlapOf(sentence) ==
    Cardinality(LongWords(call.question.text) \cap LongWords(sentence))

\* ratio > 0.2
ExceedsThreshold(sentence) ==
    5 * OverlapOf(sentence) > Cardinality(LongWords(call.question.text))

Evidence == ret.value.source_sentences

EvidenceSet == {Evidence[k] : k \in 1..Len(Evidence)}

\* C24: the lexical path returns at most two evidence sentences, each with an
\* overlap ratio above 0.2, no sentence left out has a strictly higher ratio
\* than a selected one, and the answer is the evidence joined by spaces, cut
\* to its first 300 characters plus "..." when longer; when no sentence
\* exceeds 0.2 the answer is the fixed could-not-find text with no evidence.
C24_LexicalAnswerIsTheTopSentences ==
    LexicalReturned =>
        /\ Len(Evidence) <= 2
        /\ EvidenceSet \subseteq CandidateSentences
        /\ \A e \in EvidenceSet : ExceedsThreshold(e)
        /\ \A e \in EvidenceSet : \A s \in CandidateSentences \ EvidenceSet :
               OverlapOf(s) <= OverlapOf(e)
        /\ Evidence # <<>> =>
               ret.value.answer =
                   (IF Len(Join(" ", Evidence)) > 300
                    THEN SubSeq(Join(" ", Evidence), 1, 300) \o "..."
                    ELSE Join(" ", Evidence))
        /\ (\A s \in CandidateSentences : ~ExceedsThreshold(s)) =>
               /\ Evidence = <<>>
               /\ ret.value.answer = NoSpecificAnswer

\* Two sentences selected among three scored ones, the answer cut at 300.
C24_Witness ==
    /\ LexicalReturned
    /\ Len(Evidence) = 2
    /\ \E s \in CandidateSentences \ EvidenceSet : OverlapOf(s) > 0
    /\ Len(Join(" ", Evidence)) > 300
    /\ Len(ret.value.answer) = 303

\* Sentences that share a word with the question, none above 0.2.
C24_BelowThresholdWitness ==
    /\ LexicalReturned
    /\ \E s \in CandidateSentences : OverlapOf(s) > 0
    /\ Evidence = <<>>
    /\ ret.value.answer = NoSpecificAnswer

\* A question without a word of more than three letters.
C24_NoQuestionWordWitness ==
    /\ LexicalReturned
    /\ LongWords(call.question.text) = {}
    /\ call.chunks # <<>>
    /\ ret.value.answer = NoSpecificAnswer

\* C28: the evidence sentences of the lexical path are pairwise distinct,
\* also when the ranked chunks overlap and hold the same sentence.
C28_EvidenceIsDuplicateFree ==
    LexicalReturned =>
        \A k, l \in 1..Len(Evidence) : k # l => Evidence[k] # Evidence[l]


\* ---------------------------------------------------------------------------
\* _create_evaluation on its own: it is called with a raw score in [0, 1].
\* ---------------------------------------------------------------------------

\* Raw scores are drawn in steps of 1/RawGrid.
RawGrid == 1000

RawScores == {Rat(n, RawGrid) : n \in 0..RawGrid}

InitCreate ==
    \E score \in RawScores :
        /\ embedder = "none"
        /\ qa_pipeline = "none"
        /\ pc = "call"
        /\ session_data = EmptyDict
        /\ uploads = EmptyDict
        /\ call = [op |-> "create_evaluation", score |-> score,
                   feedback |-> "Good answer", analysis |-> "Your answer is detailed."]
        /\ oracle = NoValue
        /\ ret = NoValue

CreateEvaluationCall ==
    /\ pc = "call"
    /\ call.op = "create_evaluation"
    /\ \E evaluation \in CreateEvaluation(call.score, call.feedback, call.analysis) :
           ret' = Ok(evaluation)
    /\ pc' = "return"
    /\ UNCHANGED <<embedder, qa_pipeline, call, oracle, session_data, uploads>>

NextCreate == CreateEvaluationCall

SpecCreate == InitCreate /\ [][NextCreate]_vars

CreateReturned == pc = "return" /\ call.op = "create_evaluation"

\* C27: in every evaluation of _create_evaluation the grade is the grade of
\* the reported (rounded) score and the percentage is 100 times the reported
\* score.
C27_EvaluationIsSelfConsistent ==
    CreateReturned =>
        /\ ret.value.grade = GetGrade(ret.value.score)
        /\ ret.value.percentage = RatMul(ret.value.score, Rat(100, 1))


\* ---------------------------------------------------------------------------
\* One session, its requests served one after the other: each action is a
\* whole handler, from the request to the response.
\* ---------------------------------------------------------------------------

\* The X-Session-ID of the client.
SessionId == "A"

\* How many requests the client sends.
MaxSessionRequests == 3

\* The machine when the request arrives at its handler.
Arrived(request) ==
    [session_data |-> session_data, uploads |-> uploads,
     pc |-> EntryOf(request.op), call |-> NewCall(request), ret |-> ret]

\* The client's log, the session store and the upload folder are those the
\* handler leaves in machine m.
Returns(m) ==
    /\ session_data' = m.session_data
    /\ uploads' = m.uploads
    /\ ret' = m.ret

\* upload_document from the request to the response.
UploadHandler(s, m, now) ==
    LET saved == UploadSaveStep(s, m, now)
    IN IF saved.pc = "idle" THEN saved
       ELSE LET parsed == UploadParseStep(s, saved, now)
            IN IF parsed.pc = "idle" THEN parsed
               ELSE UploadRemoveStep(s, UploadStoreStep(s, parsed, now), now)

\* ask_question from the request to the response.
AskHandler(s, m, now) ==
    LET read == AskReadStep(s, m, now)
    IN IF read.pc = "idle" THEN read ELSE AskRecordStep(s, read, now)

\* generate_challenge from the request to the response.
ChallengeHandler(s, m, now) ==
    LET read == ChallengeReadStep(s, m, now)
    IN IF read.pc = "idle" THEN read ELSE ChallengeStoreStep(s, read, now)

InitSession ==
    /\ embedder = "none"
    /\ qa_pipeline = "none"
    /\ pc = "idle"
    /\ call = NoCall
    /\ oracle = [now |-> 0]
    /\ ret = <<>>
    /\ session_data = EmptyDict
    /\ uploads = EmptyDict

UploadDocument ==
    /\ Len(ret) < MaxSessionRequests
    /\ \E request \in {r \in Requests : r.op = "upload"} :
           Returns(UploadHandler(SessionId, Arrived(request), oracle.now))
    /\ UNCHANGED <<embedder, qa_pipeline, pc, call, oracle>>

AskQuestion ==
    /\ Len(ret) < MaxSessionRequests
    /\ \E request \in {r \in Requests : r.op = "ask"} :
           Returns(AskHandler(SessionId, Arrived(request), oracle.now))
    /\ UNCHANGED <<embedder, qa_pipeline, pc, call, oracle>>

GenerateChallenge ==
    /\ Len(ret) < MaxSessionRequests
    /\ \E request \in {r \in Requests : r.op = "challenge"} :
           Returns(ChallengeHandler(SessionId, Arrived(request), oracle.now))
    /\ UNCHANGED <<embedder, qa_pipeline, pc, call, oracle>>

EvaluateAnswerRequest ==
    /\ Len(ret) < MaxSessionRequests
    /\ \E request \in {r \in Requests : r.op = "evaluate"} :
           Returns(EvaluateStep(SessionId, Arrived(request), oracle.now))
    /\ UNCHANGED <<embedder, qa_pipeline, pc, call, oracle>>

ResetSessionRequest ==
    /\ Len(ret) < MaxSessionRequests
    /\ \E request \in {r \in Requests : r.op = "reset"} :
           Returns(ResetStep(SessionId, Arrived(request), oracle.now))
    /\ UNCHANGED <<embedder, qa_pipeline, pc, call, oracle>>

NextSession ==
    \/ UploadDocument
    \/ AskQuestion
    \/ GenerateChallenge
    \/ EvaluateAnswerRequest
    \/ ResetSessionRequest

SpecSession == InitSession /\ [][NextSession]_vars

\* The positions of the log with a successful request of a route.
Succeeded(op) ==
    {k \in 1..Len(ret) : ret[k].request.op = op /\ ret[k].response.status = 200}

HoldsChallenge ==
    /\ SessionId \in DOMAIN session_data
    /\ session_data[SessionId].current_challenge.present

\* C25: whenever the session holds a current_challenge, its questions are
\* those generated from the session's current document: they were returned
\* by the last successful challenge request, no document was uploaded since,
\* and they are the questions of the document the session holds, so that an
\* evaluation scores an answer against the document of its question.
C25_ChallengeIsOfTheCurrentDocument ==
    HoldsChallenge =>
        /\ Succeeded("challenge") # {}
        /\ Succeeded("upload") # {}
        /\ MaxOf(Succeeded("upload")) < MaxOf(Succeeded("challenge"))
        /\ session_data[SessionId].document_text =
               ParseTxt[ret[MaxOf(Succeeded("upload"))].request.content]
        /\ session_data[SessionId].current_challenge.questions =
               ret[MaxOf(Succeeded("challenge"))].response.body.questions
        /\ session_data[SessionId].current_challenge.questions =
               ChallengeTable[session_data[SessionId].document_text]

\* A challenge was generated, and a second document was uploaded before.
C25_Witness ==
    /\ HoldsChallenge
    /\ Cardinality(Succeeded("upload")) = 2

\* A document was uploaded after a challenge had been generated: the session
\* holds no challenge.
C25_ReplacedWitness ==
    /\ Succeeded("challenge") # {}
    /\ Succeeded("upload") # {}
    /\ MaxOf(Succeeded("upload")) > MaxOf(Succeeded("challenge"))
    /\ ~HoldsChallenge

\* The last request saved its file: it is an upload whose file has a name
\* with an allowed extension.
LastRequestSavedFile ==
    /\ ret # <<>>
    /\ ret[Len(ret)].request.op = "upload"
    /\ ret[Len(ret)].request.has_file
    /\ ret[Len(ret)].request.filename # ""
    /\ AllowedFile(ret[Len(ret)].request.filename)

\* C26: when the response of an upload request that saved its file has been
\* returned, the saved file is no longer in the upload folder, whatever the
\* response.
C26_UploadedFileIsRemoved ==
    LastRequestSavedFile =>
        UploadPath(oracle.now, SecureFilename(ret[Len(ret)].request.filename))
            \notin DOMAIN uploads

====
